---- MODULE Spec2Model ----
(***************************************************************************)
(* The structured log/trace bridge of planning-poker (package logger,      *)
(* src/cmd/planning-pocker/services/userserver/service.go:367-1393):       *)
(* leveled log calls in three calling conventions that add an event to    *)
(* the span of the call's context and escalate its status, and the        *)
(* process-wide logger pair guarded by a reader/writer mutex.  Further     *)
(* sections model the gateway's user handlers with the user server they   *)
(* call, and the root command of the unified launcher.                     *)
(***************************************************************************)
EXTENDS Integers, Sequences, FiniteSets, TLC

VARIABLES
    loggers,    \* heap of *Logger objects: id -> configuration
    span,       \* the span carried by the context of the latest log call
    before,     \* that span as it was when the call started
    call,       \* the latest log call: convention, receiver, level, arguments
    sink,       \* what the latest call handed to the underlying zap logger
    ops,        \* span and sink operations of the latest call, in order
    globalL,    \* _globalL
    globalS,    \* _globalS
    globalMu,   \* _globalMu: [writer, readers]
    pc,         \* per process: position inside L / S / ReplaceGlobals / a log call
    arg,        \* per process: the logger argument of the running ReplaceGlobals
    prev,       \* per process: the local prev of the running ReplaceGlobals
    origin,     \* per process: 0, or the replacement whose restore closure runs
    nth,        \* per process: the number of the swap its ReplaceGlobals made
    loc,        \* per process: the local l / s of the running L / S
    ret,        \* per process: the value its last L / S returned
    closures,   \* the restore closures returned so far
    hist,       \* replacements in the order they swapped the pointer
    arrays,     \* heap of backing arrays of []zap.Field slices
    derived,    \* *Logger objects made by NewOtel / Clone / WithOptions, whose
                \* extraFields is a slice header over arrays
    want,       \* per derived logger: the extraFields it was returned with
    dpc,        \* per goroutine: its running Clone / WithOptions
    evalIn,     \* the argument of a conversion function under evaluation
    evalOut,    \* [done, value, panic]: what the function returned, or that it panicked
    sugared,    \* heap of *SugaredLogger objects: the fields of the two zap loggers
                \* each wraps, and its *Logger
    http,       \* per HTTP request of the gateway: the request and the handler's position
    rpc,        \* per HTTP request: the calls its handler made to the user server
    server,     \* per HTTP request: what the user server did with its call
    reply,      \* per HTTP request: the (response, error) the client call returned
    written,    \* per HTTP request: the responses written to its ResponseWriter
    osArgs,     \* os.Args
    viper,      \* viper: the override, environment and config file behind "service"
    shortCircuit, \* cmdutil.shortCircuit
    cmds,       \* the cobra calls made so far, the running one last, each with
                \* the os.Args it started with
    runs,       \* the subcommands run so far, each with the arguments it saw
    exit        \* [done, err]: what ServiceRootCmd.Execute returned

vars == <<loggers, span, before, call, sink, ops, globalL, globalS, globalMu,
          pc, arg, prev, origin, nth, loc, ret, closures, hist,
          arrays, derived, want, dpc, evalIn, evalOut,
          sugared, http, rpc, server, reply, written,
          osArgs, viper, shortCircuit, cmds, runs, exit>>

logVars == <<span, before, call, sink, ops>>
globalVars == <<globalL, globalS, globalMu, pc, arg, prev, origin, nth, loc, ret,
                closures, hist>>
cloneVars == <<arrays, derived, want, dpc>>
evalVars == <<evalIn, evalOut>>
sugarVars == <<sugared>>
gatewayVars == <<http, rpc, server, reply, written>>
cmdVars == <<osArgs, viper, shortCircuit, cmds, runs, exit>>

----------------------------------------------------------------------------
(* Bounds of the model.                                                    *)

MaxOpts == 2        \* options passed to one NewOtel call
StackDepth == 8     \* frames on the stack above a log call
NumProcs == 2       \* goroutines using the global pair
NumLoggers == 1     \* loggers an application installs as global
MaxInstalls == 3    \* pointer swaps in one behaviour of concurrent goroutines
MaxNesting == 3     \* depth of nested replacements of one goroutine
NumDerivers == 2    \* goroutines deriving loggers
MaxDerived == 2     \* loggers derived in one behaviour
MaxRootFields == 3  \* extra fields of the logger NewOtel returns
MaxTail == 2        \* characters varied at the end of an id passed to convertTraceID
MaxTop == 2         \* values taken from the top of the uint64 range
MaxElems == 2       \* elements an array marshaler appends
NumRequests == 2    \* HTTP requests the gateway handles in one behaviour
MaxArgs == 2        \* command line arguments after the program name
MaxSugared == 3     \* sugared loggers made in one behaviour

----------------------------------------------------------------------------
(* zapcore levels.                                                         *)

DebugLevel == -1
InfoLevel == 0
WarnLevel == 1
ErrorLevel == 2
DPanicLevel == 3
PanicLevel == 4
FatalLevel == 5

Levels == DebugLevel..FatalLevel

\* zapcore.Level.CapitalString
CapitalString(lvl) ==
    CASE lvl = DebugLevel  -> "DEBUG"
      [] lvl = InfoLevel   -> "INFO"
      [] lvl = WarnLevel   -> "WARN"
      [] lvl = ErrorLevel  -> "ERROR"
      [] lvl = DPanicLevel -> "DPANIC"
      [] lvl = PanicLevel  -> "PANIC"
      [] lvl = FatalLevel  -> "FATAL"

\* levelString with the lower-case String() of the level in place of CapitalString()
levelStringLower(lvl) ==
    CASE lvl = DebugLevel  -> "debug"
      [] lvl = InfoLevel   -> "info"
      [] lvl = WarnLevel   -> "warn"
      [] lvl = ErrorLevel  -> "error"
      [] lvl = DPanicLevel -> "PANIC"
      [] lvl = PanicLevel  -> "panic"
      [] lvl = FatalLevel  -> "fatal"

levelString(lvl) ==
    IF lvl = DPanicLevel THEN "PANIC" ELSE CapitalString(lvl)

----------------------------------------------------------------------------
(* Values, fields and attributes.  Every record kind has a fixed set of    *)
(* slots so that two of them are always comparable.                        *)

\* an interface{} argument of a sugared call
StrV(s) == [kind |-> "string", s |-> s, i |-> 0]
IntV(i) == [kind |-> "int", s |-> "", i |-> i]

\* zapcore.Field{Key, Type, Integer, String}
Field(k, t, i, s) == [Key |-> k, Type |-> t, Integer |-> i, String |-> s]
ZapInt(k, v) == Field(k, "Int64Type", v, "")
ZapString(k, v) == Field(k, "StringType", 0, v)
ZapBool(k, v) == Field(k, "BoolType", IF v THEN 1 ELSE 0, "")
ZapNamespace(k) == Field(k, "NamespaceType", 0, "")
ZapSkip == Field("", "SkipType", 0, "")

\* attribute.KeyValue
Attr(k, t, b, i, s) == [Key |-> k, Type |-> t, Bool |-> b, Int |-> i, Str |-> s]
AttrBool(k, v) == Attr(k, "BOOL", v, 0, "")
AttrInt64(k, v) == Attr(k, "INT64", FALSE, v, "")
AttrString(k, v) == Attr(k, "STRING", FALSE, 0, v)

Digit(d) == CASE d = 0 -> "0" [] d = 1 -> "1" [] d = 2 -> "2" [] d = 3 -> "3"
              [] d = 4 -> "4" [] d = 5 -> "5" [] d = 6 -> "6" [] d = 7 -> "7"
              [] d = 8 -> "8" [] d = 9 -> "9"

RECURSIVE Utoa(_)
Utoa(n) == IF n < 10 THEN Digit(n) ELSE Utoa(n \div 10) \o Digit(n % 10)

\* the %v / %d rendering of an integer
Itoa(n) == IF n < 0 THEN "-" \o Utoa(-n) ELSE Utoa(n)

\* the characters of a string packed into one string
RECURSIVE String(_)
String(cs) == IF cs = <<>> THEN "" ELSE Head(cs) \o String(Tail(cs))

\* fmt's %v rendering of a sugared argument
Render(v) == IF v.kind = "string" THEN v.s ELSE Itoa(v.i)

----------------------------------------------------------------------------
(* fmt.Sprintf over a template given as its parts: literal text and verbs. *)

Lit(s) == [verb |-> FALSE, text |-> s]
Verb(s) == [verb |-> TRUE, text |-> s]

RECURSIVE TemplateString(_)
TemplateString(t) ==
    IF t = <<>> THEN "" ELSE Head(t).text \o TemplateString(Tail(t))

TypeName(v) == IF v.kind = "string" THEN "string" ELSE "int"

\* the verb character of a verb of the template
VerbChar(verb) ==
    CASE verb = "%d" -> "d"
      [] verb = "%s" -> "s"
      [] verb = "%v" -> "v"

\* one verb applied to one argument: %v fits every argument, %d an integer
\* and %s a string; any other pairing is reported as a bad verb
FormatVerb(verb, v) ==
    IF \/ verb = "%v"
       \/ verb = "%d" /\ v.kind = "int"
       \/ verb = "%s" /\ v.kind = "string"
    THEN Render(v)
    ELSE "%!" \o VerbChar(verb) \o "(" \o TypeName(v) \o "=" \o Render(v) \o ")"

RECURSIVE Extra(_)
Extra(args) ==
    IF args = <<>> THEN ""
    ELSE TypeName(Head(args)) \o "=" \o Render(Head(args))
         \o (IF Len(args) > 1 THEN ", " ELSE "") \o Extra(Tail(args))

RECURSIVE Sprintf(_, _)
Sprintf(t, args) ==
    IF t = <<>>
    THEN IF args = <<>> THEN "" ELSE "%!(EXTRA " \o Extra(args) \o ")"
    ELSE IF ~Head(t).verb
         THEN Head(t).text \o Sprintf(Tail(t), args)
         ELSE IF args = <<>>
              THEN "%!" \o VerbChar(Head(t).text) \o "(MISSING)"
                   \o Sprintf(Tail(t), args)
              ELSE FormatVerb(Head(t).text, Head(args)) \o Sprintf(Tail(t), Tail(args))

----------------------------------------------------------------------------
(* Field-to-attribute conversion.                                          *)

IntegerTypes == {"Int8Type", "Int16Type", "Int32Type", "Int64Type", "Uint8Type",
                 "Uint16Type", "Uint32Type", "Uint64Type", "UintptrType"}

\* the numeric value of a zapcore.FieldType, as %v prints it
TypeCode(t) ==
    CASE t = "UnknownType" -> "0"
      [] t = "ArrayMarshalerType" -> "1"
      [] t = "ObjectMarshalerType" -> "2"
      [] t = "BinaryType" -> "3"
      [] t = "BoolType" -> "4"
      [] t = "ByteStringType" -> "5"
      [] t = "Complex128Type" -> "6"
      [] t = "Complex64Type" -> "7"
      [] t = "DurationType" -> "8"
      [] t = "Float64Type" -> "9"
      [] t = "Float32Type" -> "10"
      [] t = "Int64Type" -> "11"
      [] t = "Int32Type" -> "12"
      [] t = "Int16Type" -> "13"
      [] t = "Int8Type" -> "14"
      [] t = "StringType" -> "15"
      [] t = "TimeType" -> "16"
      [] t = "TimeFullType" -> "17"
      [] t = "Uint64Type" -> "18"
      [] t = "Uint32Type" -> "19"
      [] t = "Uint16Type" -> "20"
      [] t = "Uint8Type" -> "21"
      [] t = "UintptrType" -> "22"
      [] t = "ReflectType" -> "23"
      [] t = "NamespaceType" -> "24"
      [] t = "SkipType" -> "27"
      [] t = "StringerType" -> "25"
      [] t = "ErrorType" -> "26"
      [] t = "InlineMarshalerType" -> "28"

\* fmt's %v rendering of a zapcore.Field with a nil Interface
FieldString(f) ==
    "{" \o f.Key \o " " \o TypeCode(f.Type) \o " " \o Itoa(f.Integer) \o " "
        \o f.String \o " <nil>}"

\* attribute.StringSlice
AttrStringSlice(k, v) ==
    [Key |-> k, Type |-> "STRINGSLICE", Bool |-> FALSE, Int |-> 0, Str |-> "",
     Slice |-> v]

\* a bool handed to an array encoder
BoolV(b) == [kind |-> "bool", s |-> "", i |-> IF b THEN 1 ELSE 0]

\* bufferArrayEncoder.AppendBool / AppendInt... / AppendString: the element is
\* appended to stringsSlice, formatted with %v unless it is a string
bufferArrayEncoderAppend(stringsSlice, v) ==
    Append(stringsSlice,
           CASE v.kind = "bool" -> (IF v.i = 1 THEN "true" ELSE "false")
             [] v.kind = "int" -> Itoa(v.i)
             [] v.kind = "string" -> v.s)

\* a zapcore.ArrayMarshaler of the application: it appends its elements to
\* the encoder in order and returns its error ("" for nil)
ArrayMarshaler(elems, err) ==
    [nil |-> FALSE, panics |-> FALSE, elems |-> elems, err |-> err]

\* the nil interface in the place of a marshaler, and a marshaler whose
\* MarshalLogArray panics (a nil pointer whose method dereferences it)
NilMarshaler == [ArrayMarshaler(<<>>, "") EXCEPT !.nil = TRUE]
PanickingMarshaler == [ArrayMarshaler(<<>>, "") EXCEPT !.panics = TRUE]

\* the elements reaching the encoder last first
RECURSIVE AppendAllReversed(_, _)
AppendAllReversed(stringsSlice, elems) ==
    IF elems = <<>> THEN stringsSlice
    ELSE bufferArrayEncoderAppend(AppendAllReversed(stringsSlice, Tail(elems)),
                                  Head(elems))

RECURSIVE AppendAll(_, _)
AppendAll(stringsSlice, elems) ==
    IF elems = <<>> THEN stringsSlice
    ELSE AppendAll(bufferArrayEncoderAppend(stringsSlice, Head(elems)), Tail(elems))

\* fmt.Sprintf("%v", s) of a []string: the entries separated by spaces
RECURSIVE JoinEntries(_)
JoinEntries(strs) ==
    IF strs = <<>> THEN ""
    ELSE IF Len(strs) = 1 THEN strs[1]
    ELSE strs[1] \o " " \o JoinEntries(Tail(strs))

\* a zapcore.ObjectMarshaler of the application: it adds its pairs to the
\* encoder and returns its error
ObjectMarshaler(pairs, err) == [pairs |-> pairs, err |-> err]

\* the keys object marshalers of the model add, in the order of their bytes
ObjectKeys == <<"a", "b", "id">>

KeyRank(k) == CHOOSE i \in DOMAIN ObjectKeys : ObjectKeys[i] = k

\* zapcore.MapObjectEncoder.Fields after the pairs were added: a Go map, in
\* which a key added again replaces the value it had
MapFields(pairs) ==
    [k \in {pairs[i].k : i \in DOMAIN pairs} |->
        pairs[CHOOSE i \in DOMAIN pairs :
                 pairs[i].k = k /\ \A j \in DOMAIN pairs : pairs[j].k = k => j <= i].v]

\* the keys of a map in the order fmt prints them: sorted
RECURSIVE SortedKeys(_)
SortedKeys(keys) ==
    IF keys = {} THEN <<>>
    ELSE LET least == CHOOSE k \in keys : \A o \in keys : KeyRank(k) <= KeyRank(o)
         IN  <<least>> \o SortedKeys(keys \ {least})

\* fmt.Sprintf("%v", m.Fields)
MapString(fields) ==
    LET keys == SortedKeys(DOMAIN fields)
    IN  "map[" \o JoinEntries([i \in DOMAIN keys |->
                                  keys[i] \o ":" \o Render(fields[keys[i]])]) \o "]"

\* a nested array or object the marshaler hands to AppendArray / AppendObject;
\* checked: the marshaler returns the error the encoder gives it
NestedV(kind, m, checked) ==
    [kind |-> kind, s |-> "", i |-> 0, m |-> m, checked |-> checked]

\* what an encode leaves behind: the strings appended, the error returned,
\* or that it panicked
Encoded(stringsSlice, err, panic) ==
    [stringsSlice |-> stringsSlice, err |-> err, panic |-> panic]

RECURSIVE MarshalLogArray(_)

\* bufferArrayEncoder.AppendArray discarding the error of the nested marshaler
AppendArraySwallow(stringsSlice, v) ==
    LET enc == MarshalLogArray(v)
    IN  IF enc.panic THEN Encoded(stringsSlice, "", TRUE)
        ELSE Encoded(Append(stringsSlice, "[" \o JoinEntries(enc.stringsSlice) \o "]"),
                     "", FALSE)

\* bufferArrayEncoder.AppendArray
AppendArray(stringsSlice, v) ==
    LET enc == MarshalLogArray(v)
    IN  IF enc.panic THEN Encoded(stringsSlice, "", TRUE)
        ELSE Encoded(Append(stringsSlice, "[" \o JoinEntries(enc.stringsSlice) \o "]"),
                     enc.err, FALSE)

\* bufferArrayEncoder.AppendObject: the fields the map encoder holds are
\* rendered as a Go map
AppendObject(stringsSlice, v) ==
    Encoded(Append(stringsSlice, MapString(MapFields(v.pairs))), v.err, FALSE)

Nested(e) == e.kind \in {"array", "object"}

\* the marshaler's appends of elems: primitive elements up to the first
\* nested one, that one, and the rest unless the marshaler returns its error
RECURSIVE AppendElems(_, _)
AppendElems(stringsSlice, elems) ==
    IF \A i \in DOMAIN elems : ~Nested(elems[i])
    THEN Encoded(AppendAll(stringsSlice, elems), "", FALSE)
    ELSE LET k == CHOOSE i \in DOMAIN elems :
                      Nested(elems[i]) /\ \A j \in 1..(i - 1) : ~Nested(elems[j])
             sofar == AppendAll(stringsSlice, SubSeq(elems, 1, k - 1))
             r == IF elems[k].kind = "array" THEN AppendArray(sofar, elems[k].m)
                  ELSE AppendObject(sofar, elems[k].m)
         IN  IF r.panic \/ (r.err # "" /\ elems[k].checked) THEN r
             ELSE AppendElems(r.stringsSlice, SubSeq(elems, k + 1, Len(elems)))

\* v.MarshalLogArray(enc): a call on a nil interface panics
MarshalLogArray(m) ==
    IF m.nil \/ m.panics THEN Encoded(<<>>, "", TRUE)
    ELSE LET r == AppendElems(<<>>, m.elems)
         IN  Encoded(r.stringsSlice, IF r.err # "" THEN r.err ELSE m.err, r.panic)

\* zap.Array
ZapArray(k, m) ==
    [Key |-> k, Type |-> "ArrayMarshalerType", Integer |-> 0, String |-> "",
     Interface |-> m]

\* the array case keeping the elements encoded before the failure as well
ArrayAttrsKeepPartial(f) ==
    LET r == MarshalLogArray(f.Interface)
    IN  IF r.err # ""
        THEN <<AttrStringSlice(f.Key, r.stringsSlice),
               AttrString(f.Key \o "_error",
                          "otelzap: unable to marshal array: " \o r.err)>>
        ELSE <<AttrStringSlice(f.Key, r.stringsSlice)>>

\* the attributes of the ArrayMarshalerType case
ArrayAttrs(f) ==
    LET r == MarshalLogArray(f.Interface)
    IN  IF r.err # ""
        THEN <<AttrString(f.Key \o "_error",
                          "otelzap: unable to marshal array: " \o r.err)>>
        ELSE <<AttrStringSlice(f.Key, r.stringsSlice)>>

\* the unconverted cases reporting at the key of the field itself
UnconvertedAttrAtKey(f) ==
    IF f.Type = "ObjectMarshalerType"
    THEN AttrString(f.Key, "otelzap: zapcore.ObjectMarshalerType is not implemented")
    ELSE AttrString(f.Key, "otelzap: unknown field type: " \o FieldString(f))

\* the attribute of the ObjectMarshalerType and default cases
UnconvertedAttr(f) ==
    IF f.Type = "ObjectMarshalerType"
    THEN AttrString(f.Key \o "_error",
                    "otelzap: zapcore.ObjectMarshalerType is not implemented")
    ELSE AttrString(f.Key \o "_error",
                    "otelzap: unknown field type: " \o FieldString(f))

\* the Interface of a stringer or error field: a nil interface, or a value
\* of type typ whose String() / Error() returns text or panics (a nil
\* pointer with a method that dereferences its receiver; a method that
\* tests its receiver returns "<nil>" on a nil pointer)
Payload(nil, panics, typ, text) ==
    [nil |-> nil, panics |-> panics, typ |-> typ, text |-> text]

\* the nil interface, and a value val of type typ in an Interface
NilInterface == Payload(TRUE, FALSE, "", "")
Value(typ, val) == [nil |-> FALSE, panics |-> FALSE, typ |-> typ, val |-> val]

\* the types of the model that implement fmt.Stringer, and error
StringerTypes == {"*net.IPAddr", "*url.URL"}
ErrorTypes == {"*net.OpError", "*fs.PathError"}

\* zap.Stringer / a Field of ErrorType, as zap.Error builds for a non-nil
\* error, and the other constructors that keep the value in Interface
ZapInterface(k, t, payload) ==
    [Key |-> k, Type |-> t, Integer |-> 0, String |-> "", Interface |-> payload]

\* a float64 and a float32 by the fields of their IEEE 754 encoding: the
\* sign, the biased exponent, and the fraction as 16-bit words, the most
\* significant first (4 + 3 * 16 bits, 7 + 16 bits)
Float64(neg, exp, frac) == [neg |-> neg, exp |-> exp, frac |-> frac]
Float32(neg, exp, frac) == [neg |-> neg, exp |-> exp, frac |-> frac]

\* math.Float64bits, a uint64 as four 16-bit words
Float64bits(v) ==
    <<(IF v.neg THEN 32768 ELSE 0) + v.exp * 16 + v.frac[1],
      v.frac[2], v.frac[3], v.frac[4]>>

\* int64(math.Float32bits(v)): the 32 bits in the low half of the 64
Float32bits(v) ==
    <<0, 0, (IF v.neg THEN 32768 ELSE 0) + v.exp * 128 + v.frac[1], v.frac[2]>>

\* math.Float64frombits
Float64frombits(b) ==
    Float64(b[1] >= 32768, (b[1] % 32768) \div 16, <<b[1] % 16, b[2], b[3], b[4]>>)

\* attribute.Float64
AttrFloat64(k, v) ==
    [Key |-> k, Type |-> "FLOAT64", Bool |-> FALSE, Int |-> 0, Str |-> "",
     Float |-> v]

\* zap.Float64 / zap.Float32: Integer holds the bits
ZapFloat64(k, v) == Field(k, "Float64Type", Float64bits(v), "")
ZapFloat32(k, v) == Field(k, "Float32Type", Float32bits(v), "")

\* the decimal digits of a natural number, and without the zeroes at its end
RECURSIVE DecDigits(_)
DecDigits(n) == IF n < 10 THEN <<n>> ELSE DecDigits(n \div 10) \o <<n % 10>>

RECURSIVE StripZeros(_)
StripZeros(ds) ==
    IF Len(ds) > 1 /\ ds[Len(ds)] = 0
    THEN StripZeros(SubSeq(ds, 1, Len(ds) - 1)) ELSE ds

RECURSIVE DigitString(_)
DigitString(ds) == IF ds = <<>> THEN "" ELSE Digit(Head(ds)) \o DigitString(Tail(ds))

\* the digits of the natural number n in the 'E' format: one digit before the
\* point, no zeroes at the end, and a two-digit exponent
FormatDigitsE(n) ==
    LET all == DecDigits(n)
        ds == StripZeros(all)
        e == Len(all) - 1
    IN  Digit(ds[1])
            \o (IF Len(ds) > 1 THEN "." \o DigitString(Tail(ds)) ELSE "")
            \o "E+" \o (IF e < 10 THEN "0" ELSE "") \o Utoa(e)

\* the distance between a float32 of the magnitude of n and the next one:
\* 24 bits of mantissa
Float32Mant == 16777216

RECURSIVE Float32Ulp(_)
Float32Ulp(n) == IF n < Float32Mant THEN 1 ELSE 2 * Float32Ulp(n \div 2)

\* float32(x) of a float64 holding the natural number n: the nearest float32,
\* a tie going to the even mantissa
RoundFloat32(n) ==
    LET ulp == Float32Ulp(n)
        q == n \div ulp
        r == n % ulp
    IN  IF 2 * r < ulp \/ (2 * r = ulp /\ q % 2 = 0) THEN q * ulp ELSE (q + 1) * ulp

\* a decimal at distance d below (or above) the float32 n identifies it: it
\* lies no further from n than half the way to the float32 on that side, the
\* halfway point counting when the mantissa of n is even; the float32 below
\* a power of two is half as far
Float32Identifies(d, isBelow, n) ==
    LET ulp == Float32Ulp(n)
        even == (n \div ulp) % 2 = 0
        below == IF n >= Float32Mant /\ n = ulp * (Float32Mant \div 2) THEN ulp ELSE 2 * ulp
    IN  /\ d <= ulp
        /\ IF isBelow THEN 4 * d < below \/ (4 * d = below /\ even)
                      ELSE 2 * d < ulp \/ (2 * d = ulp /\ even)

\* the multiples of p next to n that identify the float32 n, nearest first
Float32Near(n, p) ==
    LET down == n % p
        up == p - down
    IN  IF down <= up /\ Float32Identifies(down, TRUE, n) THEN <<n - down>>
        ELSE IF Float32Identifies(up, FALSE, n) THEN <<n + up>>
        ELSE IF Float32Identifies(down, TRUE, n) THEN <<n - down>>
        ELSE <<>>

\* the shortest decimal that identifies the float32 n: the one with the
\* fewest digits, and of those the nearest to n
RECURSIVE Float32Shortest(_, _)
Float32Shortest(n, p) ==
    IF p = 1 THEN n
    ELSE IF Float32Near(n, p) # <<>> THEN Float32Near(n, p)[1]
    ELSE Float32Shortest(n, p \div 10)

\* strconv.FormatFloat(x, 'E', -1, bitSize) of a float64 holding the integer
\* n: with bitSize 32 x is first rounded to float32, and the digits are the
\* shortest that identify the float of that size (every integer of the model
\* is a float64, and its digits are the shortest that identify it)
FormatFloatE(n, bitSize) ==
    LET abs == IF n < 0 THEN -n ELSE n
        digits == IF bitSize = 32
                  THEN Float32Shortest(RoundFloat32(abs), 1000000000)
                  ELSE abs
    IN  (IF n < 0 THEN "-" ELSE "") \o FormatDigitsE(digits)

\* a complex number whose parts hold integers
Complex(re, im) == [re |-> re, im |-> im]

\* strconv.FormatComplex(c, 'E', -1, bitSize): each part is formatted with
\* half the bit size, and the imaginary part always carries its sign
FormatComplex(c, bitSize) ==
    "(" \o FormatFloatE(c.re, bitSize \div 2) \o (IF c.im < 0 THEN "" ELSE "+")
        \o FormatFloatE(c.im, bitSize \div 2) \o "i)"

\* a time.Time by its Unix seconds and nanoseconds, and Time.UnixNano
Time(sec, nsec) == [sec |-> sec, nsec |-> nsec]
UnixNano(t) == t.sec * 1000000000 + t.nsec

\* appendField panics: a type assertion f.Interface.(T) on a nil interface
\* or on a value that is not a T, the String() / Error() call of the
\* payload, or the MarshalLogArray call of the marshaler
appendFieldPanics(f) ==
    CASE f.Type = "StringerType" ->
            f.Interface.nil \/ f.Interface.typ \notin StringerTypes \/ f.Interface.panics
      [] f.Type = "ErrorType" ->
            f.Interface.nil \/ f.Interface.typ \notin ErrorTypes \/ f.Interface.panics
      [] f.Type = "Complex64Type" ->
            f.Interface.nil \/ f.Interface.typ # "complex64"
      [] f.Type = "Complex128Type" ->
            f.Interface.nil \/ f.Interface.typ # "complex128"
      [] f.Type \in {"BinaryType", "ByteStringType"} ->
            f.Interface.nil \/ f.Interface.typ # "[]byte"
      [] f.Type = "TimeFullType" ->
            f.Interface.nil \/ f.Interface.typ # "time.Time"
      [] f.Type = "ArrayMarshalerType" ->
            MarshalLogArray(f.Interface).panic
      [] OTHER -> FALSE

\* otelutil.Attribute(key, value) for the argument kinds of the model
otelutilAttribute(key, v) ==
    IF v.kind = "string" THEN AttrString(key, v.s) ELSE AttrInt64(key, v.i)

appendField(attrs, f) ==
    CASE f.Type = "BoolType" ->
            Append(attrs, AttrBool(f.Key, f.Integer = 1))
      [] f.Type \in IntegerTypes ->
            Append(attrs, AttrInt64(f.Key, f.Integer))
      [] f.Type \in {"Float32Type", "Float64Type"} ->
            Append(attrs, AttrFloat64(f.Key, Float64frombits(f.Integer)))
      [] f.Type = "Complex64Type" ->
            Append(attrs, AttrString(f.Key, FormatComplex(f.Interface.val, 64)))
      [] f.Type = "Complex128Type" ->
            Append(attrs, AttrString(f.Key, FormatComplex(f.Interface.val, 128)))
      [] f.Type = "StringType" ->
            Append(attrs, AttrString(f.Key, f.String))
      [] f.Type \in {"BinaryType", "ByteStringType"} ->
            Append(attrs, AttrString(f.Key, String(f.Interface.val)))
      [] f.Type = "StringerType" ->
            Append(attrs, AttrString(f.Key, f.Interface.text))
      [] f.Type \in {"DurationType", "TimeType"} ->
            Append(attrs, AttrInt64(f.Key, f.Integer))
      [] f.Type = "TimeFullType" ->
            Append(attrs, AttrInt64(f.Key, UnixNano(f.Interface.val)))
      [] f.Type = "ErrorType" ->
            attrs \o <<AttrString("exception.type", f.Interface.typ),
                       AttrString("exception.message", f.Interface.text)>>
      [] f.Type = "ReflectType" ->
            Append(attrs, otelutilAttribute(f.Key, f.Interface))
      [] f.Type = "SkipType" ->
            attrs
      [] f.Type = "ArrayMarshalerType" ->
            attrs \o ArrayAttrs(f)
      [] OTHER ->
            Append(attrs, UnconvertedAttr(f))

----------------------------------------------------------------------------
(* Spans: the tracing collaborator, as far as the bridge uses it.          *)

Status(code, desc) == [Code |-> code, Description |-> desc]

AddEvent(sp, name, attrs) ==
    [sp EXCEPT !.events = Append(@, [Name |-> name, Attrs |-> attrs])]

SetStatus(sp, code, desc) == [sp EXCEPT !.status = Status(code, desc)]

IsRecording(sp) == sp.recording

\* SpanContext.HasTraceID: the id is not all zeroes
HasTraceID(sp) == \E i \in DOMAIN sp.traceID : sp.traceID[i] # "0"

----------------------------------------------------------------------------
(* convertTraceID.  An id is a string, modelled as its sequence of         *)
(* characters; the 64-bit value is kept as a sequence of decimal digits.   *)

HexVal(c) ==
    CASE c = "0" -> 0 [] c = "1" -> 1 [] c = "2" -> 2 [] c = "3" -> 3
      [] c = "4" -> 4 [] c = "5" -> 5 [] c = "6" -> 6 [] c = "7" -> 7
      [] c = "8" -> 8 [] c = "9" -> 9
      [] c \in {"a", "A"} -> 10 [] c \in {"b", "B"} -> 11
      [] c \in {"c", "C"} -> 12 [] c \in {"d", "D"} -> 13
      [] c \in {"e", "E"} -> 14 [] c \in {"f", "F"} -> 15
      [] OTHER -> -1

CarryDigits(c) ==
    IF c = 0 THEN <<>> ELSE IF c < 10 THEN <<c>> ELSE <<c \div 10, c % 10>>

\* ds * m + c on decimal digits, most significant first
RECURSIVE MulAdd(_, _, _)
MulAdd(ds, m, c) ==
    IF ds = <<>> THEN CarryDigits(c)
    ELSE LET v == ds[Len(ds)] * m + c
         IN  MulAdd(SubSeq(ds, 1, Len(ds) - 1), m, v \div 10) \o <<v % 10>>

\* math.MaxUint64 = 18446744073709551615
MaxUint64Digits == <<1, 8, 4, 4, 6, 7, 4, 4, 0, 7, 3, 7, 0, 9, 5, 5, 1, 6, 1, 5>>

RECURSIVE DigitsGreater(_, _)
DigitsGreater(a, b) ==
    IF Len(a) # Len(b) THEN Len(a) > Len(b)
    ELSE IF a = <<>> THEN FALSE
    ELSE IF Head(a) # Head(b) THEN Head(a) > Head(b)
    ELSE DigitsGreater(Tail(a), Tail(b))

RECURSIVE HexDigits(_, _)
HexDigits(cs, acc) ==
    IF cs = <<>> THEN acc
    ELSE HexDigits(Tail(cs), MulAdd(acc, 16, HexVal(Head(cs))))

\* strconv.ParseUint(id, 16, 64)
ParseUint(cs) ==
    IF cs = <<>> \/ \E i \in DOMAIN cs : HexVal(cs[i]) < 0
    THEN [err |-> TRUE, digits |-> <<>>]
    ELSE LET ds == HexDigits(cs, <<>>)
         IN  IF DigitsGreater(ds, MaxUint64Digits)
             THEN [err |-> TRUE, digits |-> <<>>]
             ELSE [err |-> FALSE, digits |-> ds]

\* strconv.FormatUint(v, 10)
FormatUint(ds) == IF ds = <<>> THEN "0" ELSE DigitString(ds)

\* convertTraceID keeping the first 16 characters instead of dropping them
convertTraceIDHigh(id) ==
    IF Len(id) < 16 THEN ""
    ELSE LET r == ParseUint(SubSeq(id, 1, 16))
         IN  IF r.err THEN "" ELSE FormatUint(r.digits)

convertTraceID(id) ==
    IF Len(id) < 16 THEN ""
    ELSE LET low == IF Len(id) > 16 THEN SubSeq(id, 17, Len(id)) ELSE id
             r == ParseUint(low)
         IN  IF r.err THEN "" ELSE FormatUint(r.digits)

----------------------------------------------------------------------------
(* Logger and its options.                                                 *)

Opt(name, lvl, on, depth, fields) ==
    [name |-> name, lvl |-> lvl, on |-> on, depth |-> depth, fields |-> fields]

WithMinLevel(lvl) == Opt("WithMinLevel", lvl, FALSE, 0, <<>>)
WithErrorStatusLevel(lvl) == Opt("WithErrorStatusLevel", lvl, FALSE, 0, <<>>)
WithCaller(on) == Opt("WithCaller", 0, on, 0, <<>>)
WithCallerDepth(depth) == Opt("WithCallerDepth", 0, FALSE, depth, <<>>)
WithStackTrace(on) == Opt("WithStackTrace", 0, on, 0, <<>>)
WithExtraFields(fields) == Opt("WithExtraFields", 0, FALSE, 0, fields)
WithTraceIDField(on) == Opt("WithTraceIDField", 0, on, 0, <<>>)

\* an Option applied to a Logger
Apply(opt, l) ==
    CASE opt.name = "WithMinLevel" -> [l EXCEPT !.minLevel = opt.lvl]
      [] opt.name = "WithErrorStatusLevel" -> [l EXCEPT !.errorStatusLevel = opt.lvl]
      [] opt.name = "WithCaller" -> [l EXCEPT !.caller = opt.on]
      [] opt.name = "WithCallerDepth" -> [l EXCEPT !.callerDepth = opt.depth]
      [] opt.name = "WithStackTrace" -> [l EXCEPT !.stackTrace = opt.on]
      [] opt.name = "WithExtraFields" -> [l EXCEPT !.extraFields = @ \o opt.fields]
      [] opt.name = "WithTraceIDField" -> [l EXCEPT !.withTraceID = opt.on]

RECURSIVE ApplyAll(_, _)
ApplyAll(opts, l) ==
    IF opts = <<>> THEN l ELSE ApplyAll(Tail(opts), Apply(Head(opts), l))

NewOtel(opts) ==
    ApplyAll(opts, [withTraceID |-> FALSE,
                    minLevel |-> WarnLevel,
                    errorStatusLevel |-> ErrorLevel,
                    caller |-> TRUE,
                    stackTrace |-> FALSE,
                    extraFields |-> <<>>,
                    callerDepth |-> 0])

----------------------------------------------------------------------------
(* Go slices of zap.Field, as the gc toolchain builds them: a header        *)
(* (array, len, cap) over a backing array on the heap.  Copying a Logger    *)
(* struct copies the header of extraFields and shares its array.            *)

Slice(arr, len, cap) == [arr |-> arr, len |-> len, cap |-> cap]
NilSlice == Slice(0, 0, 0)

\* the zero value of zap.Field, which fills a fresh backing array
ZeroField == Field("", "UnknownType", 0, "")

\* the elements a slice header denotes in a heap
Elems(heap, s) == IF s.arr = 0 THEN <<>> ELSE SubSeq(heap[s.arr], 1, s.len)

\* capacities the allocator hands out for 64-byte elements (its size classes)
CapClasses == (1..12) \cup {14, 16}

\* runtime.growslice: double a small slice, or take what is needed when that
\* is more, rounded up to the allocator's size class
growslice(oldCap, newLen) ==
    LET newcap == IF newLen > oldCap + oldCap THEN newLen ELSE oldCap + oldCap
    IN  CHOOSE c \in CapClasses :
            c >= newcap /\ \A d \in CapClasses : d >= newcap => c <= d

\* append(s, fields...) with room in the array: the elements are written
\* into the array the header shares, above s.len
InPlace(s, fields) == fields # <<>> /\ s.len + Len(fields) <= s.cap

\* append(s, fields...) when nothing else touches the arrays involved
append(heap, s, fields) ==
    IF fields = <<>> THEN [heap |-> heap, slice |-> s]
    ELSE IF InPlace(s, fields)
    THEN [heap |-> [heap EXCEPT ![s.arr] =
                       [i \in 1..s.cap |->
                           IF i > s.len /\ i <= s.len + Len(fields)
                           THEN fields[i - s.len] ELSE @[i]]],
          slice |-> Slice(s.arr, s.len + Len(fields), s.cap)]
    ELSE LET newLen == s.len + Len(fields)
             newcap == growslice(s.cap, newLen)
             elems == Elems(heap, s) \o fields
         IN  [heap |-> Append(heap, [i \in 1..newcap |->
                                        IF i <= newLen THEN elems[i] ELSE ZeroField]),
              slice |-> Slice(Len(heap) + 1, newLen, newcap)]

\* an Option applied to a Logger struct in the heap: WithExtraFields appends
\* to the slice the struct holds, the others assign a scalar
ApplyHeap(opt, st) ==
    IF opt.name = "WithExtraFields"
    THEN LET r == append(st.heap, st.l.extraFields, opt.fields)
         IN  [heap |-> r.heap, l |-> [st.l EXCEPT !.extraFields = r.slice]]
    ELSE [heap |-> st.heap, l |-> Apply(opt, st.l)]

RECURSIVE ApplyAllHeap(_, _)
ApplyAllHeap(opts, st) ==
    IF opts = <<>> THEN st ELSE ApplyAllHeap(Tail(opts), ApplyHeap(Head(opts), st))

\* NewOtel building its struct in a heap; the struct is private until returned
NewOtelHeap(heap, opts) ==
    ApplyAllHeap(opts, [heap |-> heap,
                        l |-> [NewOtel(<<>>) EXCEPT !.extraFields = NilSlice]])

\* a goroutine that is not deriving a logger
NoDerive == [pc |-> "idle", clone |-> NewOtel(<<>>), opts |-> <<>>, src |-> <<>>,
             i |-> 0, c |-> 0, fields |-> <<>>]

\* a program that derives no logger
NoClones ==
    /\ arrays = <<>>
    /\ derived = <<>>
    /\ want = <<>>
    /\ dpc = <<>>

\* a program that evaluates no conversion function on its own
NoEval ==
    /\ evalIn = <<>>
    /\ evalOut = [done |-> FALSE, value |-> <<>>, panic |-> FALSE]

\* a program that makes no sugared logger of its own
NoSugared == sugared = <<>>

\* a gateway that has received no request
NoGateway ==
    /\ http = <<>>
    /\ rpc = <<>>
    /\ server = <<>>
    /\ reply = <<>>
    /\ written = <<>>

\* a process whose command line is not under study
NoCommand ==
    /\ osArgs = <<>>
    /\ viper = <<>>
    /\ shortCircuit = FALSE
    /\ cmds = <<>>
    /\ runs = <<>>
    /\ exit = [done |-> FALSE, err |-> "", panic |-> FALSE, fatal |-> FALSE]

----------------------------------------------------------------------------
(* The shared core of the three calling conventions.                       *)

runtimeCaller(skip) ==
    IF skip + 1 <= StackDepth
    THEN [fn |-> "handlers.GetUserByID", file |-> "user_handler.go", line |-> 21,
          ok |-> TRUE]
    ELSE [fn |-> "", file |-> "", line |-> 0, ok |-> FALSE]

CallerAttrs(l) ==
    IF ~l.caller THEN <<>>
    ELSE LET c == runtimeCaller(4 + l.callerDepth)
         IN  IF ~c.ok THEN <<>>
             ELSE (IF c.fn # "" THEN <<AttrString("code.function", c.fn)>> ELSE <<>>)
                  \o (IF c.file # ""
                      THEN <<AttrString("code.filepath", c.file),
                             AttrInt64("code.lineno", c.line)>>
                      ELSE <<>>)

StackAttrs(l) ==
    IF l.stackTrace
    THEN <<AttrString("exception.stacktrace", "goroutine 1 [running]:")>>
    ELSE <<>>

\* log escalating only strictly above errorStatusLevel
logStrictlyAbove(l, sp, lvl, msg, attrs) ==
    LET all == attrs \o <<AttrString("log.severity", levelString(lvl)),
                          AttrString("log.message", msg)>>
               \o CallerAttrs(l) \o StackAttrs(l)
        ev == AddEvent(sp, "log", all)
    IN  IF lvl > l.errorStatusLevel
        THEN [span |-> SetStatus(ev, "Error", msg), ops |-> <<"AddEvent", "SetStatus">>]
        ELSE [span |-> ev, ops |-> <<"AddEvent">>]

\* log escalating at minLevel instead of errorStatusLevel
logStatusAtMinLevel(l, sp, lvl, msg, attrs) ==
    LET all == attrs \o <<AttrString("log.severity", levelString(lvl)),
                          AttrString("log.message", msg)>>
               \o CallerAttrs(l) \o StackAttrs(l)
        ev == AddEvent(sp, "log", all)
    IN  IF lvl >= l.minLevel
        THEN [span |-> SetStatus(ev, "Error", msg), ops |-> <<"AddEvent", "SetStatus">>]
        ELSE [span |-> ev, ops |-> <<"AddEvent">>]

\* log setting the status before it adds the event
logStatusFirst(l, sp, lvl, msg, attrs) ==
    LET all == attrs \o <<AttrString("log.severity", levelString(lvl)),
                          AttrString("log.message", msg)>>
               \o CallerAttrs(l) \o StackAttrs(l)
    IN  IF lvl >= l.errorStatusLevel
        THEN [span |-> AddEvent(SetStatus(sp, "Error", msg), "log", all),
              ops |-> <<"SetStatus", "AddEvent">>]
        ELSE [span |-> AddEvent(sp, "log", all), ops |-> <<"AddEvent">>]

\* Logger.log: the span after the call and the span operations made
log(l, sp, lvl, msg, attrs) ==
    LET all == attrs \o <<AttrString("log.severity", levelString(lvl)),
                          AttrString("log.message", msg)>>
               \o CallerAttrs(l) \o StackAttrs(l)
        ev == AddEvent(sp, "log", all)
    IN  IF lvl >= l.errorStatusLevel
        THEN [span |-> SetStatus(ev, "Error", msg), ops |-> <<"AddEvent", "SetStatus">>]
        ELSE [span |-> ev, ops |-> <<"AddEvent">>]

RECURSIVE FieldAttrs(_, _)
FieldAttrs(fields, attrs) ==
    IF fields = <<>> THEN attrs
    ELSE IF Head(fields).Type = "NamespaceType"
         THEN FieldAttrs(Tail(fields), attrs)
         ELSE FieldAttrs(Tail(fields), appendField(attrs, Head(fields)))

TraceFields(sp) ==
    <<ZapString("traceId", String(sp.traceID)),
      ZapString("trace_id", convertTraceID(sp.traceID)),
      ZapString("spanId", String(sp.spanID)),
      ZapString("span_id", convertTraceID(sp.spanID))>>

\* logFields appending extraFields only after the level check
logFieldsExtraAfterLevel(l, sp, lvl, msg, fields) ==
    LET fs == IF Len(l.extraFields) > 0 THEN fields \o l.extraFields ELSE fields
    IN  IF lvl < l.minLevel
        THEN [fields |-> fields, span |-> sp, ops |-> <<>>]
        ELSE IF ~IsRecording(sp)
        THEN [fields |-> fs, span |-> sp, ops |-> <<>>]
        ELSE LET r == log(l, sp, lvl, msg, FieldAttrs(fs, <<>>))
             IN  [fields |-> IF l.withTraceID /\ HasTraceID(sp)
                             THEN fs \o TraceFields(sp) ELSE fs,
                  span |-> r.span, ops |-> r.ops]

\* Logger.logFields: the fields for the sink, the span after, the span operations
logFields(l, sp, lvl, msg, fields) ==
    LET fs == IF Len(l.extraFields) > 0 THEN fields \o l.extraFields ELSE fields
    IN  IF lvl < l.minLevel
        THEN [fields |-> fs, span |-> sp, ops |-> <<>>]
        ELSE IF ~IsRecording(sp)
        THEN [fields |-> fs, span |-> sp, ops |-> <<>>]
        ELSE LET r == log(l, sp, lvl, msg, FieldAttrs(fs, <<>>))
             IN  [fields |-> IF l.withTraceID /\ HasTraceID(sp)
                             THEN fs \o TraceFields(sp) ELSE fs,
                  span |-> r.span, ops |-> r.ops]

\* logArgs without the IsRecording check
logArgsNoRecordingCheck(l, sp, lvl, template, args) ==
    IF lvl < l.minLevel
    THEN [span |-> sp, ops |-> <<>>]
    ELSE log(l, sp, lvl, Sprintf(template, args),
             <<AttrString("log.template", TemplateString(template))>>)

\* logArgs recording the template as the message as well
logArgsUnformatted(l, sp, lvl, template, args) ==
    IF lvl < l.minLevel
    THEN [span |-> sp, ops |-> <<>>]
    ELSE IF ~IsRecording(sp)
    THEN [span |-> sp, ops |-> <<>>]
    ELSE log(l, sp, lvl, TemplateString(template),
             <<AttrString("log.template", TemplateString(template))>>)

\* SugaredLogger.logArgs
logArgs(l, sp, lvl, template, args) ==
    IF lvl < l.minLevel
    THEN [span |-> sp, ops |-> <<>>]
    ELSE IF ~IsRecording(sp)
    THEN [span |-> sp, ops |-> <<>>]
    ELSE log(l, sp, lvl, Sprintf(template, args),
             <<AttrString("log.template", TemplateString(template))>>)

\* the loop of logKVs without the type assertion on the key
RECURSIVE KVAttrsAnyKey(_, _, _)
KVAttrsAnyKey(kvs, i, attrs) ==
    IF ~(i < Len(kvs)) THEN attrs
    ELSE KVAttrsAnyKey(kvs, i + 2,
            Append(attrs, otelutilAttribute(Render(kvs[i]), kvs[i + 1])))

\* the loop of logKVs over kvs[i], kvs[i+1]
RECURSIVE KVAttrs(_, _, _)
KVAttrs(kvs, i, attrs) ==
    IF ~(i < Len(kvs)) THEN attrs
    ELSE IF kvs[i].kind = "string"
         THEN KVAttrs(kvs, i + 2, Append(attrs, otelutilAttribute(kvs[i].s, kvs[i + 1])))
         ELSE KVAttrs(kvs, i + 2, attrs)

\* the appended entries with the keys after their values
TraceKVsValueFirst(sp) ==
    <<StrV(String(sp.traceID)), StrV("traceId"),
      StrV(convertTraceID(sp.traceID)), StrV("trace_id"),
      StrV(String(sp.spanID)), StrV("spanId"),
      StrV(convertTraceID(sp.spanID)), StrV("span_id")>>

TraceKVs(sp) ==
    <<StrV("traceId"), StrV(String(sp.traceID)),
      StrV("trace_id"), StrV(convertTraceID(sp.traceID)),
      StrV("spanId"), StrV(String(sp.spanID)),
      StrV("span_id"), StrV(convertTraceID(sp.spanID))>>

\* SugaredLogger.logKVs
logKVs(l, sp, lvl, msg, kvs) ==
    IF lvl < l.minLevel
    THEN [kvs |-> kvs, span |-> sp, ops |-> <<>>]
    ELSE IF ~IsRecording(sp)
    THEN [kvs |-> kvs, span |-> sp, ops |-> <<>>]
    ELSE LET r == log(l, sp, lvl, msg, KVAttrs(kvs, 1, <<>>))
         IN  [kvs |-> IF l.withTraceID /\ HasTraceID(sp)
                      THEN kvs \o TraceKVs(sp) ELSE kvs,
              span |-> r.span, ops |-> r.ops]

----------------------------------------------------------------------------
(* The global pair.                                                        *)

Procs == 1..NumProcs
LoggerIds == 0..NumLoggers

\* Logger.Sugar: a new SugaredLogger whose l is the logger
Sugar(l) == [l |-> l]

\* SugaredLogger.Desugar
Desugar(s) == s.l

\* a value L or S read: a *Logger, or a *SugaredLogger given by its l
NoValue == [kind |-> "none", l |-> 0]
LoggerValue(l) == [kind |-> "Logger", l |-> l]
SugaredValue(s) == [kind |-> "SugaredLogger", l |-> Desugar(s)]

\* sync.RWMutex
\* a reader that does not wait for the writer
CanRLockNoWait(mu) == TRUE
CanRLock(mu) == mu.writer = 0
RLock(mu, p) == [mu EXCEPT !.readers = @ \cup {p}]
\* a read lock that is never released
RUnlockMissing(mu, p) == mu
RUnlock(mu, p) == [mu EXCEPT !.readers = @ \ {p}]
\* a writer that does not wait for the holders of the mutex
CanLockNoWait(mu) == TRUE
CanLock(mu) == mu.writer = 0 /\ mu.readers = {}
Lock(mu, p) == [mu EXCEPT !.writer = p]
Unlock(mu, p) == [mu EXCEPT !.writer = 0]
Holds(mu, p) == mu.writer = p \/ p \in mu.readers

GlobalInit ==
    /\ globalL = 0
    /\ globalS = Sugar(0)
    /\ globalMu = [writer |-> 0, readers |-> {}]
    /\ pc = [p \in Procs |-> "idle"]
    /\ arg = [p \in Procs |-> 0]
    /\ prev = [p \in Procs |-> 0]
    /\ origin = [p \in Procs |-> 0]
    /\ nth = [p \in Procs |-> 0]
    /\ loc = [p \in Procs |-> NoValue]
    /\ ret = [p \in Procs |-> NoValue]
    /\ closures = {}
    /\ hist = <<>>

----------------------------------------------------------------------------
(* Log calls.  The context of a call is an input of the call: it carries   *)
(* the span the call may mutate.                                           *)

ZeroTraceID == [i \in 1..32 |-> "0"]
ZeroSpanID == [i \in 1..16 |-> "0"]
SomeTraceID == <<"4", "b", "f", "9", "2", "f", "3", "5", "7", "7", "b", "3", "4", "d",
                 "a", "6", "a", "3", "c", "e", "9", "2", "9", "d", "0", "e", "0", "e",
                 "4", "7", "3", "6">>
SomeSpanID == <<"0", "0", "f", "0", "6", "7", "a", "a", "0", "b", "a", "9", "0", "2",
                "b", "7">>

Span(recording, traceID, spanID, status) ==
    [recording |-> recording, traceID |-> traceID, spanID |-> spanID,
     status |-> status, events |-> <<>>]

\* trace.SpanFromContext(ctx) for the contexts of the model
Contexts ==
    {Span(FALSE, ZeroTraceID, ZeroSpanID, Status("Unset", "")),
     Span(FALSE, SomeTraceID, SomeSpanID, Status("Unset", ""))}
    \cup {Span(TRUE, SomeTraceID, SomeSpanID, Status("Unset", "")),
          Span(TRUE, ZeroTraceID, ZeroSpanID, Status("Unset", "")),
          \* a span an earlier failure of the request has already marked
          [Span(TRUE, SomeTraceID, SomeSpanID, Status("Error", "earlier failure"))
              EXCEPT !.events = <<[Name |-> "exception", Attrs |-> <<>>]>>]}

Messages == {"disk low", "db down"}

FieldLists ==
    {<<>>,
     <<ZapInt("pct", 97)>>,
     <<ZapNamespace("http"), ZapBool("retry", TRUE)>>,
     <<ZapArray("ids", ArrayMarshaler(<<IntV(7)>>, "bad element")), ZapInt("pct", 97)>>}

\* a template with its arguments
Templated ==
    {[template |-> <<Lit("user "), Verb("%d"), Lit(" created")>>, args |-> <<IntV(42)>>],
     [template |-> <<Lit("db down")>>, args |-> <<>>],
     \* a verb that does not fit its argument, and a verb without one
     [template |-> <<Lit("user "), Verb("%s")>>, args |-> <<IntV(7)>>],
     [template |-> <<Lit("user "), Verb("%d")>>, args |-> <<>>]}

KVLists ==
    {<<StrV("id"), IntV(42), StrV("oops")>>,
     <<IntV(7), StrV("x"), StrV("id"), IntV(42)>>,
     <<StrV("id"), IntV(42), StrV("name"), StrV("bob")>>}

NoCall == [conv |-> "none", l |-> 0, lvl |-> 0, msg |-> "", fields |-> <<>>,
           template |-> <<>>, args |-> <<>>, kvs |-> <<>>]

NoSink == [lvl |-> 0, msg |-> "", fields |-> <<>>, args |-> <<>>, kvs |-> <<>>]

NoSpan == Span(FALSE, ZeroTraceID, ZeroSpanID, Status("Unset", ""))

\* what the zap logger does after writing the entry
SinkOps(lvl) ==
    IF lvl = PanicLevel THEN <<"Sink", "panic">>
    ELSE IF lvl = FatalLevel THEN <<"Sink", "exit">>
    ELSE <<"Sink">>

\* the strict methods handing the record to the zap logger first: a sink
\* that panics or exits leaves the span as it was
LoggerWithCtxLogSinkFirst(id, ctx, lvl, msg, fields) ==
    LET r == logFields(loggers[id], ctx, lvl, msg, fields)
        ends == lvl \in {PanicLevel, FatalLevel}
    IN  /\ before' = ctx
        /\ call' = [NoCall EXCEPT !.conv = "strict", !.l = id, !.lvl = lvl,
                                  !.msg = msg, !.fields = fields]
        /\ span' = IF ends THEN ctx ELSE r.span
        /\ sink' = [NoSink EXCEPT !.lvl = lvl, !.msg = msg, !.fields = r.fields]
        /\ ops' = IF ends THEN SinkOps(lvl) ELSE SinkOps(lvl) \o r.ops

\* LoggerWithCtx.Debug ... Fatal: the method of level lvl on Logger id
LoggerWithCtxLog(id, ctx, lvl, msg, fields) ==
    LET r == logFields(loggers[id], ctx, lvl, msg, fields)
    IN  /\ before' = ctx
        /\ call' = [NoCall EXCEPT !.conv = "strict", !.l = id, !.lvl = lvl,
                                  !.msg = msg, !.fields = fields]
        /\ span' = r.span
        /\ sink' = [NoSink EXCEPT !.lvl = lvl, !.msg = msg, !.fields = r.fields]
        /\ ops' = r.ops \o SinkOps(lvl)

\* SugaredLoggerWithCtx.Debugf ... Fatalf
SugaredLoggerWithCtxLogf(id, ctx, lvl, template, args) ==
    LET r == logArgs(loggers[id], ctx, lvl, template, args)
    IN  /\ before' = ctx
        /\ call' = [NoCall EXCEPT !.conv = "templated", !.l = id, !.lvl = lvl,
                                  !.template = template, !.args = args]
        /\ span' = r.span
        /\ sink' = [NoSink EXCEPT !.lvl = lvl, !.msg = TemplateString(template),
                                  !.args = args]
        /\ ops' = r.ops \o SinkOps(lvl)

\* SugaredLoggerWithCtx.Debugw ... Fatalw
SugaredLoggerWithCtxLogw(id, ctx, lvl, msg, kvs) ==
    LET r == logKVs(loggers[id], ctx, lvl, msg, kvs)
    IN  /\ before' = ctx
        /\ call' = [NoCall EXCEPT !.conv = "kv", !.l = id, !.lvl = lvl,
                                  !.msg = msg, !.kvs = kvs]
        /\ span' = r.span
        /\ sink' = [NoSink EXCEPT !.lvl = lvl, !.msg = msg, !.kvs = r.kvs]
        /\ ops' = r.ops \o SinkOps(lvl)

----------------------------------------------------------------------------
(* Specification of the bridge: one logger built by NewOtel with up to     *)
(* MaxOpts options, and log calls of every level and convention on it.     *)

Options ==
    {WithMinLevel(lvl) : lvl \in Levels}
    \cup {WithErrorStatusLevel(lvl) : lvl \in Levels}
    \cup {WithCaller(FALSE), WithCallerDepth(StackDepth), WithStackTrace(TRUE),
          WithExtraFields(<<ZapString("service", "userserver")>>),
          WithTraceIDField(TRUE)}

RECURSIVE SeqsUpTo(_, _)
SeqsUpTo(S, n) ==
    IF n = 0 THEN {<<>>}
    ELSE LET shorter == SeqsUpTo(S, n - 1)
         IN  shorter \cup {Append(q, x) : q \in shorter, x \in S}

AppLogger == 1

LogInit ==
    /\ span = NoSpan
    /\ before = NoSpan
    /\ call = NoCall
    /\ sink = NoSink
    /\ ops = <<>>

Init ==
    /\ \E opts \in SeqsUpTo(Options, MaxOpts) :
          loggers = [id \in 0..AppLogger |->
                        IF id = 0 THEN NewOtel(<<>>) ELSE NewOtel(opts)]
    /\ LogInit
    /\ GlobalInit
    /\ NoClones
    /\ NoEval
    /\ NoGateway
    /\ NoSugared
    /\ NoCommand

\* a request handler makes its log call on the context of the request
Strict ==
    /\ call = NoCall
    /\ \E ctx \in Contexts, lvl \in Levels, msg \in Messages, fields \in FieldLists :
          LoggerWithCtxLog(AppLogger, ctx, lvl, msg, fields)
    /\ UNCHANGED <<sugarVars, gatewayVars, cmdVars, evalVars, cloneVars, loggers, globalVars>>

Logf ==
    /\ call = NoCall
    /\ \E ctx \in Contexts, lvl \in Levels, t \in Templated :
          SugaredLoggerWithCtxLogf(AppLogger, ctx, lvl, t.template, t.args)
    /\ UNCHANGED <<sugarVars, gatewayVars, cmdVars, evalVars, cloneVars, loggers, globalVars>>

Logw ==
    /\ call = NoCall
    /\ \E ctx \in Contexts, lvl \in Levels, kvs \in KVLists :
          SugaredLoggerWithCtxLogw(AppLogger, ctx, lvl, "user created", kvs)
    /\ UNCHANGED <<sugarVars, gatewayVars, cmdVars, evalVars, cloneVars, loggers, globalVars>>

\* the request ends and its context is dropped; a panic or exit of the sink
\* ends the process instead
EndRequest ==
    /\ call # NoCall
    /\ call.lvl \notin {PanicLevel, FatalLevel}
    /\ span' = NoSpan
    /\ before' = NoSpan
    /\ call' = NoCall
    /\ sink' = NoSink
    /\ ops' = <<>>
    /\ UNCHANGED <<sugarVars, gatewayVars, cmdVars, evalVars, cloneVars, loggers, globalVars>>

Next == Strict \/ Logf \/ Logw \/ EndRequest

Spec == Init /\ [][Next]_vars

----------------------------------------------------------------------------
(* Properties of the log calls.                                            *)

Called == call # NoCall
Receiver == loggers[call.l]

\* the message of the latest call as it is logged
CallMessage ==
    IF call.conv = "templated" THEN Sprintf(call.template, call.args) ELSE call.msg

\* the events the latest call added to the span
NewEvents == SubSeq(span.events, Len(before.events) + 1, Len(span.events))

HasAttr(ev, a) == \E i \in DOMAIN ev.Attrs : ev.Attrs[i] = a

\* C1: a leveled call of any convention on a context whose span is not
\* recording leaves the span as it was: no event added, status unchanged,
\* whatever the level and the configuration of the logger.
C1_NonRecordingUntouched ==
    (Called /\ ~before.recording) =>
        /\ span.events = before.events
        /\ span.status = before.status
        /\ "AddEvent" \notin {ops[i] : i \in DOMAIN ops}
        /\ "SetStatus" \notin {ops[i] : i \in DOMAIN ops}

C1_Witness ==
    /\ call.conv = "templated"
    /\ ~before.recording
    /\ call.lvl >= Receiver.minLevel
    /\ call.lvl >= Receiver.errorStatusLevel
    /\ span = before

\* C2: a strict call below minLevel adds no event (hence no attribute) to the
\* span, and the sink gets the caller's fields followed by extraFields.
C2_BelowMinLevel ==
    (call.conv = "strict" /\ call.lvl < Receiver.minLevel) =>
        /\ span.events = before.events
        /\ sink.fields = call.fields \o Receiver.extraFields

C2_Witness ==
    /\ call.conv = "strict"
    /\ call.lvl < Receiver.minLevel
    /\ before.recording
    /\ call.fields # <<>>
    /\ Receiver.extraFields # <<>>
    /\ Len(sink.fields) = Len(call.fields) + Len(Receiver.extraFields)

\* C3 as stated: every call on a recording span at or above errorStatusLevel
\* leaves status Error described by the log message.
C3_Original ==
    (Called /\ before.recording /\ call.lvl >= Receiver.errorStatusLevel) =>
        span.status = Status("Error", CallMessage)

\* C3 amended: every call on a recording span at or above both minLevel and
\* errorStatusLevel leaves status Error described by the log message.
C3_ErrorStatus ==
    (/\ Called
     /\ before.recording
     /\ call.lvl >= Receiver.minLevel
     /\ call.lvl >= Receiver.errorStatusLevel) =>
        span.status = Status("Error", CallMessage)

C3_Witness ==
    /\ call.conv = "strict"
    /\ call.lvl = ErrorLevel
    /\ call.msg = "db down"
    /\ before.recording
    /\ before.status = Status("Unset", "")
    /\ Receiver.errorStatusLevel = ErrorLevel
    /\ span.status = Status("Error", "db down")

\* the scenario of C4: minLevel = info, errorStatusLevel = error,
\* Warn("disk low", Int("pct", 97)) on a recording span
C4_Scenario ==
    /\ call.conv = "strict"
    /\ call.lvl = WarnLevel
    /\ call.msg = "disk low"
    /\ call.fields = <<ZapInt("pct", 97)>>
    /\ before.recording
    /\ Receiver.minLevel = InfoLevel
    /\ Receiver.errorStatusLevel = ErrorLevel

\* C4 as stated: the scenario adds one event "log" with pct = 97 (integer) and
\* log.severity = "Warn", and leaves the status unchanged.
C4_Original ==
    C4_Scenario =>
        /\ Len(NewEvents) = 1
        /\ NewEvents[1].Name = "log"
        /\ HasAttr(NewEvents[1], AttrInt64("pct", 97))
        /\ HasAttr(NewEvents[1], AttrString("log.severity", "Warn"))
        /\ span.status = before.status

\* C4 amended: the scenario adds exactly one event "log" with pct = 97
\* (integer) and log.severity = "WARN", and leaves the status unchanged.
C4_WarnScenario ==
    C4_Scenario =>
        /\ Len(NewEvents) = 1
        /\ NewEvents[1].Name = "log"
        /\ HasAttr(NewEvents[1], AttrInt64("pct", 97))
        /\ HasAttr(NewEvents[1], AttrString("log.severity", "WARN"))
        /\ span.status = before.status

C4_Witness ==
    /\ C4_Scenario
    /\ Len(span.events) = Len(before.events) + 1

\* C5: a call below errorStatusLevel never changes the status of the span,
\* for any minLevel, recording state and convention.
C5_StatusKept ==
    (Called /\ call.lvl < Receiver.errorStatusLevel) =>
        /\ span.status = before.status
        /\ "SetStatus" \notin {ops[i] : i \in DOMAIN ops}

C5_Witness ==
    /\ call.conv = "kv"
    /\ before.recording
    /\ call.lvl >= Receiver.minLevel
    /\ call.lvl < Receiver.errorStatusLevel
    /\ Len(NewEvents) = 1
    /\ span.status = Status("Error", "earlier failure")

\* the positions of the kvs of the latest call that start a well-formed pair
GoodPairs ==
    {i \in DOMAIN call.kvs :
        i % 2 = 1 /\ i + 1 <= Len(call.kvs) /\ call.kvs[i].kind = "string"}

\* the attribute of the pair at position i of the kvs of the latest call
PairAttr(i) ==
    IF call.kvs[i + 1].kind = "int"
    THEN AttrInt64(call.kvs[i].s, call.kvs[i + 1].i)
    ELSE AttrString(call.kvs[i].s, call.kvs[i + 1].s)

\* the attributes of an event that come before log.severity
ArgAttrs(ev) ==
    {i \in DOMAIN ev.Attrs :
        \A j \in 1..i : ev.Attrs[j].Key # "log.severity"}

\* C6: a key/value call on a recording span at or above minLevel attaches the
\* attribute of every well-formed pair and nothing for a pair whose key is
\* not a string or for an orphaned trailing key, and the sink still receives
\* all the arguments of the caller.
C6_MalformedPairs ==
    (call.conv = "kv" /\ before.recording /\ call.lvl >= Receiver.minLevel) =>
        /\ Len(NewEvents) = 1
        /\ \A i \in GoodPairs : HasAttr(NewEvents[1], PairAttr(i))
        /\ Cardinality(ArgAttrs(NewEvents[1])) = Cardinality(GoodPairs)
        /\ \A j \in ArgAttrs(NewEvents[1]) :
              \E i \in GoodPairs : NewEvents[1].Attrs[j] = PairAttr(i)
        /\ Len(sink.kvs) >= Len(call.kvs)
        /\ SubSeq(sink.kvs, 1, Len(call.kvs)) = call.kvs

\* Infow("user created", "id", 42, "oops")
C6_Witness ==
    /\ call.conv = "kv"
    /\ call.lvl = InfoLevel
    /\ call.msg = "user created"
    /\ call.kvs = <<StrV("id"), IntV(42), StrV("oops")>>
    /\ before.recording
    /\ call.lvl >= Receiver.minLevel
    /\ HasAttr(NewEvents[1], AttrInt64("id", 42))
    /\ \A i \in DOMAIN NewEvents[1].Attrs : NewEvents[1].Attrs[i].Key # "oops"

----------------------------------------------------------------------------
(* Specification of the global pair: NumProcs goroutines call L, S,        *)
(* ReplaceGlobals and the restore closures, interleaved at every write of  *)
(* the pair and every release of the mutex, and log through the logger    *)
(* they obtained.                                                          *)

\* the loggers an application builds to install, by id; 0 is the initial
\* NewOtel(zap.NewNop())
GlobalOpts(id) ==
    IF id = 0 THEN <<>> ELSE <<WithMinLevel(InfoLevel), WithCallerDepth(id)>>

GlobalSpecInit ==
    /\ loggers = [id \in LoggerIds |-> NewOtel(GlobalOpts(id))]
    /\ LogInit
    /\ GlobalInit
    /\ NoClones
    /\ NoEval
    /\ NoGateway
    /\ NoSugared
    /\ NoCommand

\* the instance installed by the n-th replacement; 0 replacements: the initial one
InstalledAt(n) == IF n = 0 THEN 0 ELSE hist[n].new

\* L(): _globalMu.RLock(); l := _globalL
L_RLock(p) ==
    /\ pc[p] = "idle"
    /\ CanRLock(globalMu)
    /\ globalMu' = RLock(globalMu, p)
    /\ loc' = [loc EXCEPT ![p] = LoggerValue(globalL)]
    /\ pc' = [pc EXCEPT ![p] = "L_runlock"]
    /\ UNCHANGED <<globalL, globalS, arg, prev, origin, nth, ret, closures, hist>>

\* _globalMu.RUnlock(); return l
L_RUnlock(p) ==
    /\ pc[p] = "L_runlock"
    /\ globalMu' = RUnlock(globalMu, p)
    /\ ret' = [ret EXCEPT ![p] = loc[p]]
    /\ loc' = [loc EXCEPT ![p] = NoValue]
    /\ pc' = [pc EXCEPT ![p] = "returned"]
    /\ UNCHANGED <<globalL, globalS, arg, prev, origin, nth, closures, hist>>

\* S(): _globalMu.RLock(); s := _globalS
S_RLock(p) ==
    /\ pc[p] = "idle"
    /\ CanRLock(globalMu)
    /\ globalMu' = RLock(globalMu, p)
    /\ loc' = [loc EXCEPT ![p] = SugaredValue(globalS)]
    /\ pc' = [pc EXCEPT ![p] = "S_runlock"]
    /\ UNCHANGED <<globalL, globalS, arg, prev, origin, nth, ret, closures, hist>>

\* _globalMu.RUnlock(); return s
S_RUnlock(p) ==
    /\ pc[p] = "S_runlock"
    /\ globalMu' = RUnlock(globalMu, p)
    /\ ret' = [ret EXCEPT ![p] = loc[p]]
    /\ loc' = [loc EXCEPT ![p] = NoValue]
    /\ pc' = [pc EXCEPT ![p] = "returned"]
    /\ UNCHANGED <<globalL, globalS, arg, prev, origin, nth, closures, hist>>

\* ReplaceGlobals(logger): _globalMu.Lock(); prev := _globalL.  org is 0 for a
\* call of the application and the number of the replacement whose closure
\* makes the call.
ReplaceGlobals_Lock(p, logger, org) ==
    /\ pc[p] = "idle"
    /\ CanLock(globalMu)
    /\ globalMu' = Lock(globalMu, p)
    /\ arg' = [arg EXCEPT ![p] = logger]
    /\ origin' = [origin EXCEPT ![p] = org]
    /\ prev' = [prev EXCEPT ![p] = globalL]
    /\ pc' = [pc EXCEPT ![p] = "RG_setL"]
    /\ UNCHANGED <<globalL, globalS, nth, loc, ret, closures, hist>>

\* _globalL = logger
ReplaceGlobals_SetL(p) ==
    /\ pc[p] = "RG_setL"
    /\ globalL' = arg[p]
    /\ hist' = Append(hist, [origin |-> origin[p], new |-> arg[p],
                             old |-> globalL, prev |-> prev[p]])
    /\ nth' = [nth EXCEPT ![p] = Len(hist) + 1]
    /\ pc' = [pc EXCEPT ![p] = "RG_setS"]
    /\ UNCHANGED <<globalS, globalMu, arg, prev, origin, loc, ret, closures>>

\* a closure that captures logger in place of prev
restoreClosureOfLogger(prv, logger, n) == [of |-> n, prev |-> logger]

\* func() { ReplaceGlobals(prev) }, of the n-th replacement
restoreClosure(prv, logger, n) == [of |-> n, prev |-> prv]

\* the second assignment sugaring the logger that was replaced
ReplaceGlobals_SetSPrev(p) ==
    /\ pc[p] = "RG_setS"
    /\ globalS' = Sugar(prev[p])
    /\ globalMu' = Unlock(globalMu, p)
    /\ closures' = IF origin[p] = 0
                   THEN closures \cup {restoreClosure(prev[p], arg[p], nth[p])}
                   ELSE closures
    /\ arg' = [arg EXCEPT ![p] = 0]
    /\ prev' = [prev EXCEPT ![p] = 0]
    /\ origin' = [origin EXCEPT ![p] = 0]
    /\ nth' = [nth EXCEPT ![p] = 0]
    /\ pc' = [pc EXCEPT ![p] = "idle"]
    /\ UNCHANGED <<globalL, loc, ret, hist>>

\* _globalS = logger.Sugar(); _globalMu.Unlock();
\* return func() { ReplaceGlobals(prev) }.  A restore closure drops the closure
\* its own ReplaceGlobals call returns.
ReplaceGlobals_SetS(p) ==
    /\ pc[p] = "RG_setS"
    /\ globalS' = Sugar(arg[p])
    /\ globalMu' = Unlock(globalMu, p)
    /\ closures' = IF origin[p] = 0
                   THEN closures \cup {restoreClosure(prev[p], arg[p], nth[p])}
                   ELSE closures
    /\ arg' = [arg EXCEPT ![p] = 0]
    /\ prev' = [prev EXCEPT ![p] = 0]
    /\ origin' = [origin EXCEPT ![p] = 0]
    /\ nth' = [nth EXCEPT ![p] = 0]
    /\ pc' = [pc EXCEPT ![p] = "idle"]
    /\ UNCHANGED <<globalL, loc, ret, hist>>

\* the pointer swaps made or begun so far
Swaps == Len(hist) + Cardinality({q \in Procs : pc[q] = "RG_setL"})

\* the application replaces the global logger
Replace(p) ==
    /\ Swaps < MaxInstalls
    /\ \E logger \in LoggerIds \ {0} : ReplaceGlobals_Lock(p, logger, 0)
    /\ UNCHANGED <<sugarVars, gatewayVars, cmdVars, evalVars, cloneVars, loggers, logVars>>

\* the application invokes a restore closure it holds
Restore(p) ==
    /\ Swaps < MaxInstalls
    /\ \E c \in closures : ReplaceGlobals_Lock(p, c.prev, c.of)
    /\ UNCHANGED <<sugarVars, gatewayVars, cmdVars, evalVars, cloneVars, loggers, logVars>>

LogContext == Span(TRUE, SomeTraceID, SomeSpanID, Status("Unset", ""))

\* the caller logs through what L() or S() returned:
\* L().Ctx(ctx).Error(msg) or S().Ctx(ctx).Errorw(msg)
Log_Begin(p) ==
    /\ pc[p] = "returned"
    /\ IF ret[p].kind = "Logger"
       THEN LoggerWithCtxLog(ret[p].l, LogContext, ErrorLevel, "db down", <<>>)
       ELSE SugaredLoggerWithCtxLogw(ret[p].l, LogContext, ErrorLevel, "db down", <<>>)
    /\ pc' = [pc EXCEPT ![p] = "logging"]
    /\ UNCHANGED <<sugarVars, gatewayVars, cmdVars, evalVars, cloneVars, loggers, globalL, globalS, globalMu, arg, prev, origin, nth, loc,
                   ret, closures, hist>>

\* the log call returns and the request that made it ends
Log_End(p) ==
    /\ pc[p] = "logging"
    /\ span' = NoSpan
    /\ before' = NoSpan
    /\ call' = NoCall
    /\ sink' = NoSink
    /\ ops' = <<>>
    /\ pc' = [pc EXCEPT ![p] = "idle"]
    /\ ret' = [ret EXCEPT ![p] = NoValue]
    /\ UNCHANGED <<sugarVars, gatewayVars, cmdVars, evalVars, cloneVars, loggers, globalL, globalS, globalMu, arg, prev, origin, nth, loc,
                   closures, hist>>

GlobalStep(p) ==
    \/ L_RLock(p) \/ L_RUnlock(p)
    \/ S_RLock(p) \/ S_RUnlock(p)
    \/ ReplaceGlobals_SetL(p) \/ ReplaceGlobals_SetS(p)

GlobalNext ==
    \/ \E p \in Procs : GlobalStep(p) /\ UNCHANGED <<sugarVars, gatewayVars, cmdVars, evalVars, cloneVars, loggers, logVars>>
    \/ \E p \in Procs : Replace(p)
    \/ \E p \in Procs : Restore(p)
    \/ \E p \in Procs : Log_Begin(p)
    \/ \E p \in Procs : Log_End(p)

GlobalSpec == GlobalSpecInit /\ [][GlobalNext]_vars

----------------------------------------------------------------------------
(* Specification of one goroutine that scopes the global logger: it nests  *)
(* replacements and invokes the closures it was handed, up to MaxNesting   *)
(* replacements and as many restores.                                      *)

Scoper == 1

NestedReplace ==
    /\ Len(hist) < 2 * MaxNesting
    /\ \E logger \in LoggerIds \ {0} : ReplaceGlobals_Lock(Scoper, logger, 0)
    /\ UNCHANGED <<sugarVars, gatewayVars, cmdVars, evalVars, cloneVars, loggers, logVars>>

NestedRestore ==
    /\ Len(hist) < 2 * MaxNesting
    /\ \E c \in closures : ReplaceGlobals_Lock(Scoper, c.prev, c.of)
    /\ UNCHANGED <<sugarVars, gatewayVars, cmdVars, evalVars, cloneVars, loggers, logVars>>

NestedSetL == ReplaceGlobals_SetL(Scoper) /\ UNCHANGED <<sugarVars, gatewayVars, cmdVars, evalVars, cloneVars, loggers, logVars>>

NestedSetS == ReplaceGlobals_SetS(Scoper) /\ UNCHANGED <<sugarVars, gatewayVars, cmdVars, evalVars, cloneVars, loggers, logVars>>

NestedNext == NestedReplace \/ NestedRestore \/ NestedSetL \/ NestedSetS

NestedSpec == GlobalSpecInit /\ [][NestedNext]_vars

----------------------------------------------------------------------------
(* Properties of the global pair.                                          *)

\* C7: when a replacement is directly followed, in the order of the swaps, by
\* the call of its own restore closure, the global logger is again the
\* instance that was global before the replacement, and L() reads that one.
C7_ReplaceThenRestore ==
    \A i \in DOMAIN hist :
        (i + 1 \in DOMAIN hist /\ hist[i].origin = 0 /\ hist[i + 1].origin = i) =>
            /\ hist[i + 1].new = hist[i].old
            /\ (Len(hist) = i + 1) =>
                  /\ globalL = hist[i].old
                  /\ \A p \in Procs :
                        pc[p] = "L_runlock" => loc[p] = LoggerValue(hist[i].old)

C7_Witness ==
    /\ Len(hist) = 2
    /\ hist[1].origin = 0
    /\ hist[2].origin = 1
    /\ hist[1].new # hist[1].old
    /\ \E p \in Procs : pc[p] = "returned" /\ ret[p] = LoggerValue(hist[1].old)

\* a window of the swaps: n replacements from swap s + 1 on, then their n
\* restore closures in reverse order
NestedWindow(s, n) ==
    /\ s + 2 * n <= Len(hist)
    /\ \A k \in 1..n :
          /\ hist[s + k].origin = 0
          /\ hist[s + 2 * n + 1 - k].origin = s + k

\* C8: a restore closure installs exactly the instance that was global when
\* its ReplaceGlobals swapped the pointer, whatever was replaced since; and
\* after nested replacements, the closures invoked in reverse order bring the
\* global logger back to the instance that was global before the first one.
C8_SingleLevelUndo ==
    /\ \A j \in DOMAIN hist :
          hist[j].origin # 0 => hist[j].new = hist[hist[j].origin].old
    /\ \A s \in 0..Len(hist), n \in 1..MaxNesting :
          NestedWindow(s, n) =>
              /\ hist[s + 2 * n].new = hist[s + 1].old
              /\ (s + 2 * n = Len(hist)) => globalL = hist[s + 1].old

C8_Witness ==
    /\ NestedWindow(0, 2)
    /\ Len(hist) = 4
    /\ hist[1].new # 0
    /\ hist[3].new = hist[2].old
    /\ globalL = 0
    /\ pc[Scoper] = "idle"

\* C9: the replacements take effect in one order: each captures as prev the
\* instance the replacement before it installed, a read of L or S made under
\* the read lock is the instance (or its sugared form) the latest replacement
\* installed, and what L or S returned is an installed instance.
C9_Linearizable ==
    /\ \A i \in DOMAIN hist : hist[i].prev = InstalledAt(i - 1)
    /\ \A p \in Procs :
          /\ pc[p] = "L_runlock" => loc[p] = LoggerValue(InstalledAt(Len(hist)))
          /\ pc[p] = "S_runlock" =>
                loc[p] = SugaredValue(Sugar(InstalledAt(Len(hist))))
          /\ pc[p] = "returned" =>
                /\ ret[p].kind \in {"Logger", "SugaredLogger"}
                /\ \E n \in 0..Len(hist) : ret[p].l = InstalledAt(n)

C9_Witness ==
    /\ Len(hist) = 2
    /\ hist[1].origin = 0
    /\ hist[2].origin = 0
    /\ hist[2].prev = hist[1].new
    /\ \E p, q \in Procs :
          /\ p # q
          /\ pc[p] = "S_runlock"
          /\ loc[p] = SugaredValue(Sugar(hist[2].new))
          /\ pc[q] = "returned"
          /\ ret[q] = LoggerValue(0)

\* C10: the mutex is held only between its acquisition and the release that
\* follows the read or the swap of the pair: no process holds it at rest, after
\* L or S returned, or while its log call runs.
C10_LockScope ==
    \A p \in Procs :
        /\ Holds(globalMu, p) => pc[p] \in {"L_runlock", "S_runlock", "RG_setL", "RG_setS"}
        /\ pc[p] \in {"idle", "returned", "logging"} => ~Holds(globalMu, p)

C10_Witness ==
    \E p, q \in Procs :
        /\ p # q
        /\ pc[p] = "logging"
        /\ Len(span.events) = 1
        /\ ~Holds(globalMu, p)
        /\ globalMu.writer = q

----------------------------------------------------------------------------
(* Derived loggers: goroutines derive loggers from published ones with     *)
(* Clone and WithOptions.  A published Logger is never assigned to again;  *)
(* the backing array of its extraFields is shared with what is derived     *)
(* from it.                                                                *)

Derivers == 1..NumDerivers

RootField(i) == ZapInt("root", i)
TenantField == ZapString("tenant", "a")
ShardField == ZapInt("shard", 7)

\* the options of the NewOtel call that builds the first logger: k extra
\* fields, added one option at a time
RootOpts(k) == [i \in 1..k |-> WithExtraFields(<<RootField(i)>>)]

\* the option lists passed to Clone
CloneOptions ==
    {<<>>,
     <<WithExtraFields(<<TenantField>>)>>,
     <<WithExtraFields(<<ShardField>>)>>,
     <<WithMinLevel(DebugLevel), WithExtraFields(<<TenantField, ShardField>>)>>}

\* the zap.Fields(...) options passed to WithOptions, as their field lists
ZapOptions ==
    {<<>>,
     <<<<ShardField>>>>,
     <<<<TenantField, ShardField>>>>,
     <<<<TenantField>>, <<ShardField>>>>}

\* fieldExtractorCore.With: the fields are appended to the list the core
\* points to, and a nil Core is returned
fieldExtractorCoreWith(extraFields, fs) ==
    [extraFields |-> extraFields \o fs, core |-> "nil"]

\* zap.New(core, opts...): every zap.Fields option does
\* log.core = log.core.With(fs), a call that panics once the core is nil
RECURSIVE zapNew(_, _, _)
zapNew(core, extraFields, zopts) ==
    IF zopts = <<>> THEN [extraFields |-> extraFields, panic |-> FALSE]
    ELSE IF core = "nil" THEN [extraFields |-> extraFields, panic |-> TRUE]
    ELSE LET r == fieldExtractorCoreWith(extraFields, Head(zopts))
         IN  zapNew(r.core, r.extraFields, Tail(zopts))

\* the order in which a racing copy of one zap.Field may land, piece by piece
Components == <<"Key", "Type", "Integer", "String">>

CloneInit ==
    /\ \E k \in 0..MaxRootFields :
          LET r == NewOtelHeap(<<>>, RootOpts(k))
          IN  /\ arrays = r.heap
              /\ derived = <<r.l>>
              /\ want = <<Elems(r.heap, r.l.extraFields)>>
    /\ dpc = [p \in Derivers |-> NoDerive]
    /\ loggers = <<>>
    /\ LogInit
    /\ GlobalInit
    /\ NoEval
    /\ NoGateway
    /\ NoSugared
    /\ NoCommand

\* loggers returned or being built
Deriving ==
    Len(derived) + Cardinality({p \in Derivers : dpc[p].pc \notin {"idle", "panic"}})

\* append(clone.extraFields, src...) starts: with room in the shared array
\* the elements are copied in piece by piece; otherwise a fresh array, still
\* private to this goroutine, receives the old elements and the new ones
StartAppend(heap, d, src) ==
    IF InPlace(d.clone.extraFields, src)
    THEN [heap |-> heap, d |-> [d EXCEPT !.pc = "write", !.src = src, !.i = 1, !.c = 1]]
    ELSE LET r == append(heap, d.clone.extraFields, src)
         IN  [heap |-> r.heap,
              d |-> [d EXCEPT !.pc = "opts", !.clone.extraFields = r.slice,
                              !.fields = @ \o src]]

\* Clone: clone := *l
Clone_Copy(p, parent, opts) ==
    /\ dpc[p].pc = "idle"
    /\ Deriving <= MaxDerived
    /\ dpc' = [dpc EXCEPT ![p] =
                  [NoDerive EXCEPT !.pc = "opts", !.clone = derived[parent],
                                   !.opts = opts,
                                   !.fields = Elems(arrays, derived[parent].extraFields)]]
    /\ UNCHANGED <<arrays, derived, want>>

\* Clone: opt(&clone) for the next option
Clone_Option(p) ==
    /\ dpc[p].pc = "opts"
    /\ dpc[p].opts # <<>>
    /\ LET opt == Head(dpc[p].opts)
           d == [dpc[p] EXCEPT !.opts = Tail(@)]
       IN  IF opt.name = "WithExtraFields"
           THEN LET r == StartAppend(arrays, d, opt.fields)
                IN  /\ arrays' = r.heap
                    /\ dpc' = [dpc EXCEPT ![p] = r.d]
           ELSE /\ dpc' = [dpc EXCEPT ![p] = [d EXCEPT !.clone = Apply(opt, @)]]
                /\ UNCHANGED arrays
    /\ UNCHANGED <<derived, want>>

\* WithOptions: the fields of the zap options are extracted, clone := *l,
\* and append(clone.extraFields, extraFields...) starts; a panic of zap.New
\* leaves the call before anything is cloned, and the goroutine derives no
\* further logger
WithOptions_Copy(p, parent, zopts) ==
    /\ dpc[p].pc = "idle"
    /\ Deriving <= MaxDerived
    /\ LET new == zapNew("fieldExtractorCore", <<>>, zopts)
           d == [NoDerive EXCEPT !.pc = "opts", !.clone = derived[parent],
                                 !.fields = Elems(arrays, derived[parent].extraFields)]
           r == StartAppend(arrays, d, new.extraFields)
       IN  IF new.panic
           THEN /\ dpc' = [dpc EXCEPT ![p] = [NoDerive EXCEPT !.pc = "panic"]]
                /\ UNCHANGED arrays
           ELSE /\ arrays' = r.heap
                /\ dpc' = [dpc EXCEPT ![p] = r.d]
    /\ UNCHANGED <<derived, want>>

\* the next piece of the next element lands in the shared array; after the
\* last one the append returns the longer header
Append_Write(p) ==
    /\ dpc[p].pc = "write"
    /\ LET d == dpc[p]
           s == d.clone.extraFields
           comp == Components[d.c]
           last == d.c = Len(Components) /\ d.i = Len(d.src)
       IN  /\ arrays' = [arrays EXCEPT ![s.arr][s.len + d.i] =
                            [@ EXCEPT ![comp] = d.src[d.i][comp]]]
           /\ dpc' = [dpc EXCEPT ![p] =
                 IF last
                 THEN [d EXCEPT !.pc = "opts", !.src = <<>>, !.i = 0, !.c = 0,
                                !.clone.extraFields =
                                    Slice(s.arr, s.len + Len(d.src), s.cap),
                                !.fields = @ \o d.src]
                 ELSE IF d.c = Len(Components)
                 THEN [d EXCEPT !.i = @ + 1, !.c = 1]
                 ELSE [d EXCEPT !.c = @ + 1]]
    /\ UNCHANGED <<derived, want>>

\* return &clone
Clone_Return(p) ==
    /\ dpc[p].pc = "opts"
    /\ dpc[p].opts = <<>>
    /\ derived' = Append(derived, dpc[p].clone)
    /\ want' = Append(want, dpc[p].fields)
    /\ dpc' = [dpc EXCEPT ![p] = NoDerive]
    /\ UNCHANGED arrays

Clone(p) == \E parent \in DOMAIN derived, opts \in CloneOptions : Clone_Copy(p, parent, opts)

WithOptions(p) ==
    \E parent \in DOMAIN derived, zopts \in ZapOptions : WithOptions_Copy(p, parent, zopts)

CloneStep(p) ==
    \/ Clone(p)
    \/ Clone_Option(p)
    \/ WithOptions(p)
    \/ Append_Write(p)
    \/ Clone_Return(p)

CloneNext == \E p \in Derivers : CloneStep(p) /\ UNCHANGED <<sugarVars, gatewayVars, cmdVars, evalVars, loggers, logVars, globalVars>>

CloneSpec == CloneInit /\ [][CloneNext]_vars

\* the extra fields a logger adds to its log entries
extraFields(id) == Elems(arrays, derived[id].extraFields)

(* C11: appending extra fields to a logger derived by Clone or WithOptions *)
(* never changes the extraFields observed by its parent or by a sibling:   *)
(* every logger keeps the extra fields it was returned with, which are its *)
(* parent's followed by its own.                                           *)
C11_DerivedIsolated == \A id \in DOMAIN derived : extraFields(id) = want[id]

----------------------------------------------------------------------------
(* Claims about the fields a call carries, checked under Spec.             *)

\* the latest call is one of the strict methods of LoggerWithCtx
StrictCall == call.conv = "strict"

\* the span event the latest call added
Recorded == Len(NewEvents) = 1

(* C12: the receiver's extraFields are appended to the fields of every     *)
(* leveled call, strict and sugared alike, and before the minLevel and     *)
(* recording checks: a strict call hands its fields followed by the extra  *)
(* fields to the sink whatever its level and span; a key/value call hands  *)
(* the key of every extra field to the sink; and the event of a call of    *)
(* any convention has an attribute for every extra field.                  *)
C12_ExtraFieldsEveryCall ==
    Called =>
        LET extra == Receiver.extraFields
        IN  /\ StrictCall =>
                  SubSeq(sink.fields, 1, Len(call.fields) + Len(extra))
                      = call.fields \o extra
            /\ call.conv = "kv" =>
                  \A i \in DOMAIN extra :
                      \E j \in DOMAIN sink.kvs : sink.kvs[j] = StrV(extra[i].Key)
            /\ Recorded =>
                  \A i \in DOMAIN extra :
                      \E j \in DOMAIN NewEvents[1].Attrs :
                          NewEvents[1].Attrs[j].Key = extra[i].Key

\* the four keys of the trace id fields
TraceKeys == {"traceId", "trace_id", "spanId", "span_id"}

(* C13: whenever withTraceID is enabled and the span of the call's context *)
(* carries a valid trace id, a strict or key/value call hands the sink its *)
(* fields (with the extra fields, for a strict call) followed by exactly   *)
(* the four fields traceId, trace_id, spanId, span_id, and the span event, *)
(* if any, has none of these keys.                                         *)
C13_TraceFieldsAppended ==
    (Called /\ Receiver.withTraceID /\ HasTraceID(before)) =>
        /\ StrictCall =>
              sink.fields = call.fields \o Receiver.extraFields \o TraceFields(before)
        /\ call.conv = "kv" => sink.kvs = call.kvs \o TraceKVs(before)
        /\ \A e \in DOMAIN NewEvents : \A j \in DOMAIN NewEvents[e].Attrs :
              NewEvents[e].Attrs[j].Key \notin TraceKeys

----------------------------------------------------------------------------
(* convertTraceID on its own: the ids of the OpenTelemetry API (32 and 16  *)
(* hex characters) and strings of other lengths and alphabets.             *)

IdLengths == {0, 8, 15, 16, 17, 32, 33}
IdChars == {"0", "1", "9", "a", "F", "g"}

RECURSIVE SeqsOfLen(_, _)
SeqsOfLen(S, n) ==
    IF n = 0 THEN {<<>>} ELSE {Append(q, x) : q \in SeqsOfLen(S, n - 1), x \in S}

\* an id of len characters: head, then fill, then tail
MakeId(len, head, fill, tail) ==
    LET t == IF Len(tail) > len THEN SubSeq(tail, 1, len) ELSE tail
    IN  [i \in 1..len |-> IF i > len - Len(t) THEN t[i - (len - Len(t))]
                          ELSE IF i = 1 THEN head ELSE fill]

TraceIDInputs ==
    {SomeTraceID, SomeSpanID}
    \cup {MakeId(len, head, fill, tail) :
             len \in IdLengths, head \in {"0", "f", "g"}, fill \in {"0", "f"},
             tail \in SeqsOfLen(IdChars, MaxTail)}

ConvertInit ==
    /\ evalIn \in TraceIDInputs
    /\ evalOut = [done |-> FALSE, value |-> <<>>, panic |-> FALSE]
    /\ loggers = <<>>
    /\ LogInit
    /\ GlobalInit
    /\ NoClones
    /\ NoGateway
    /\ NoSugared
    /\ NoCommand

\* span_id / trace_id := convertTraceID(id)
ConvertTraceID ==
    /\ ~evalOut.done
    /\ evalOut' = [done |-> TRUE, value |-> convertTraceID(evalIn), panic |-> FALSE]
    /\ UNCHANGED <<sugarVars, gatewayVars, cmdVars, evalIn, cloneVars, loggers, logVars, globalVars>>

ConvertNext == ConvertTraceID

ConvertSpec == ConvertInit /\ [][ConvertNext]_vars

\* Reference for C14: the value of 16 hex characters as four 16-bit limbs,
\* most significant first, turned into decimal by long division by 10000.
Limbs(cs) ==
    [k \in 1..4 |-> HexVal(cs[4 * k - 3]) * 4096 + HexVal(cs[4 * k - 2]) * 256
                    + HexVal(cs[4 * k - 1]) * 16 + HexVal(cs[4 * k])]

\* quotient and remainder of a four-limb value divided by 10000
DivLimbs(l) ==
    LET t1 == l[1]
        t2 == (t1 % 10000) * 65536 + l[2]
        t3 == (t2 % 10000) * 65536 + l[3]
        t4 == (t3 % 10000) * 65536 + l[4]
    IN  [q |-> <<t1 \div 10000, t2 \div 10000, t3 \div 10000, t4 \div 10000>>,
         r |-> t4 % 10000]

\* the five groups of four decimal digits of a four-limb value, highest first
DecimalGroups(l) ==
    LET d0 == DivLimbs(l)
        d1 == DivLimbs(d0.q)
        d2 == DivLimbs(d1.q)
        d3 == DivLimbs(d2.q)
        d4 == DivLimbs(d3.q)
    IN  <<d4.r, d3.r, d2.r, d1.r, d0.r>>

PadGroup(n) ==
    Digit(n \div 1000) \o Digit((n \div 100) % 10) \o Digit((n \div 10) % 10)
    \o Digit(n % 10)

RECURSIVE RenderGroups(_, _)
RenderGroups(gs, started) ==
    IF gs = <<>> THEN (IF started THEN "" ELSE "0")
    ELSE IF ~started /\ Head(gs) = 0 THEN RenderGroups(Tail(gs), FALSE)
    ELSE (IF started THEN PadGroup(Head(gs)) ELSE Utoa(Head(gs)))
         \o RenderGroups(Tail(gs), TRUE)

\* the decimal rendering of the value of 16 hex characters
RefDecimal(cs) == RenderGroups(DecimalGroups(Limbs(cs)), FALSE)

IsHex(cs) == \A i \in DOMAIN cs : HexVal(cs[i]) >= 0

\* cs is a hex numeral of a value below 2^64: at most 16 characters after
\* its leading zeros
RefParses(cs) ==
    /\ cs # <<>>
    /\ IsHex(cs)
    /\ \A i \in DOMAIN cs : cs[i] # "0" => Len(cs) - i + 1 <= 16

\* the part of the id convertTraceID is said to convert
Selected(id) == IF Len(id) > 16 THEN SubSeq(id, 17, Len(id)) ELSE id

(* C14: convertTraceID returns, for a 32-character hex trace id, the       *)
(* decimal rendering of the unsigned 64-bit value of its last 16 hex       *)
(* characters; for a 16-character hex span id, the decimal rendering of    *)
(* the whole id; and the empty string for an id shorter than 16 characters *)
(* or whose selected part does not parse as a 64-bit hex value.            *)
C14_ConvertTraceID ==
    evalOut.done =>
        /\ (Len(evalIn) = 32 /\ IsHex(evalIn)) =>
              evalOut.value = RefDecimal(SubSeq(evalIn, 17, 32))
        /\ (Len(evalIn) = 16 /\ IsHex(evalIn)) => evalOut.value = RefDecimal(evalIn)
        /\ Len(evalIn) < 16 => evalOut.value = ""
        /\ ~RefParses(Selected(evalIn)) => evalOut.value = ""
        /\ evalIn = SomeTraceID => evalOut.value = "11803532876627986230"
        /\ evalIn = SomeSpanID => evalOut.value = "67667974448284343"

C14_Witness ==
    /\ evalOut.done
    /\ evalIn = SomeTraceID
    /\ evalOut.value = "11803532876627986230"

----------------------------------------------------------------------------
(* appendField on its own: a field is built by a zap constructor from a    *)
(* value of the application and converted to attributes.                   *)

\* an integer of the application: off, or 2^64 - off when top
Wide(top, off) == [top |-> top, off |-> off]

\* the conversion int64(v) the zap constructors apply to integers of every
\* width: a uint64 above the int64 range wraps round to a negative value
int64(n) == IF n.top THEN -n.off ELSE n.off

IntegerCtors == {"Int8", "Int16", "Int32", "Int64", "Uint8", "Uint16", "Uint32",
                 "Uint64", "Uintptr"}

\* values of each integer type that the model can hold
IntegerValues(ctor) ==
    LET small(S) == {Wide(FALSE, v) : v \in S}
    IN  CASE ctor = "Int8" -> small({-128, -1, 0, 127})
          [] ctor = "Int16" -> small({-32768, 0, 32767})
          [] ctor \in {"Int32", "Int64"} -> small({-2147483647, 0, 2147483647})
          [] ctor = "Uint8" -> small({0, 255})
          [] ctor = "Uint16" -> small({0, 65535})
          [] ctor = "Uint32" -> small({0, 2147483647})
          [] ctor \in {"Uint64", "Uintptr"} ->
                small({0, 2147483647}) \cup {Wide(TRUE, k) : k \in 1..MaxTop}

FieldInput(ctor, key, b, n, s, m) ==
    [ctor |-> ctor, key |-> key, b |-> b, n |-> n, s |-> s, m |-> m]

NoMarshaler == ArrayMarshaler(<<>>, "")

ArrayElems == {BoolV(TRUE), IntV(-7), StrV("a b")}

FieldKeys == {"n", "user.id"}

\* a *net.IPAddr and a *net.OpError, the nil interface, the nil pointer of
\* each of the two types, whose String() and Error() test the receiver and
\* return "<nil>", and the nil pointers of *url.URL and *fs.PathError, whose
\* String() and Error() read a field of the receiver
Payloads ==
    {Payload(FALSE, FALSE, "*net.IPAddr", "10.0.0.7"),
     Payload(FALSE, FALSE, "*net.OpError", "dial tcp: refused"),
     NilInterface,
     Payload(FALSE, FALSE, "*net.IPAddr", "<nil>"),
     Payload(FALSE, FALSE, "*net.OpError", "<nil>"),
     Payload(FALSE, TRUE, "*url.URL", ""),
     Payload(FALSE, TRUE, "*fs.PathError", "")}

\* 0.5 and -2.5
Float64Values == {Float64(FALSE, 1022, <<0, 0, 0, 0>>), Float64(TRUE, 1024, <<4, 0, 0, 0>>)}

\* 1.5 and -0.75
Float32Values == {Float32(FALSE, 127, <<64, 0>>), Float32(TRUE, 126, <<64, 0>>)}

\* values kept in the Interface of a field, and the nil interface
InterfaceValues ==
    {Value("complex64", Complex(1, 2)),
     Value("complex64", Complex(123456792, -33554448)),
     Value("complex128", Complex(-12, -300)),
     Value("complex128", Complex(123456792, 16777217)),
     Value("[]byte", <<"h", "i">>),
     Value("time.Time", Time(1, 5)),
     NilInterface}

\* nested arrays and objects, failing or not, with marshalers that return
\* the encoder's error and marshalers that drop it
NestedElems ==
    {NestedV("array", ArrayMarshaler(es, err), chk) :
        es \in SeqsUpTo({IntV(-7), StrV("a b")}, MaxElems),
        err \in {"", "bad inner"}, chk \in BOOLEAN}
    \cup {NestedV("object", ObjectMarshaler(ps, err), chk) :
             ps \in {<<>>, <<[k |-> "id", v |-> IntV(-7)]>>,
                     <<[k |-> "b", v |-> StrV("z")], [k |-> "a", v |-> IntV(-7)]>>,
                     <<[k |-> "a", v |-> StrV("z")], [k |-> "a", v |-> IntV(-7)]>>},
             err \in {"", "bad object"}, chk \in BOOLEAN}

FieldInputs ==
    {FieldInput("Bool", k, b, Wide(FALSE, 0), "", NoMarshaler) :
        k \in FieldKeys, b \in BOOLEAN}
    \cup UNION {{FieldInput(c, k, FALSE, n, "", NoMarshaler) :
                    k \in FieldKeys, n \in IntegerValues(c)} : c \in IntegerCtors}
    \cup {FieldInput("String", k, FALSE, Wide(FALSE, 0), str, NoMarshaler) :
             k \in FieldKeys, str \in {"", "alice"}}
    \cup {FieldInput("Array", k, FALSE, Wide(FALSE, 0), "", ArrayMarshaler(es, err)) :
             k \in FieldKeys, es \in SeqsUpTo(ArrayElems, MaxElems),
             err \in {"", "bad element"}}
    \cup {FieldInput(c, k, FALSE, Wide(FALSE, 0), "", NoMarshaler) :
             k \in FieldKeys, c \in {"Object", "Skip", "Namespace", "Unknown"}}
    \cup {FieldInput(c, k, FALSE, Wide(FALSE, 0), "", pl) :
             k \in FieldKeys, c \in {"Stringer", "Error"}, pl \in Payloads}
    \cup {FieldInput("Array", k, FALSE, Wide(FALSE, 0), "", m) :
             k \in FieldKeys, m \in {NilMarshaler, PanickingMarshaler}}
    \cup {FieldInput("Float64", k, FALSE, v, "", NoMarshaler) :
             k \in FieldKeys, v \in Float64Values}
    \cup {FieldInput("Float32", k, FALSE, v, "", NoMarshaler) :
             k \in FieldKeys, v \in Float32Values}
    \cup {FieldInput("Duration", k, FALSE, Wide(FALSE, d), "", NoMarshaler) :
             k \in FieldKeys, d \in {-1, 1500}}
    \cup {FieldInput("Time", k, FALSE, Time(1, 5), "", NoMarshaler) : k \in FieldKeys}
    \cup {FieldInput(c, k, FALSE, Wide(FALSE, 0), "", v) :
             k \in FieldKeys, v \in InterfaceValues,
             c \in {"Complex64", "Complex128", "Binary", "ByteString", "TimeFull"}}
    \cup {FieldInput("Reflect", k, FALSE, Wide(FALSE, 0), "", v) :
             k \in FieldKeys, v \in {StrV("alice"), IntV(42)}}
    \cup {FieldInput("NestedArray", k, FALSE, Wide(FALSE, 0), "",
                      ArrayMarshaler(pre \o <<n>> \o post, "")) :
             k \in FieldKeys, pre \in SeqsUpTo(ArrayElems, 1), n \in NestedElems,
             post \in {<<>>, <<StrV("z")>>}}

\* zap.Bool, zap.Int8 ... zap.Uintptr, zap.String, zap.Array, zap.Object,
\* zap.Skip, zap.Namespace, the zero Field, zap.Float64, zap.Float32,
\* zap.Duration, zap.Time of a time in the range of UnixNano, zap.Reflect,
\* and fields holding a value in Interface under a tag
ZapField(in) ==
    CASE in.ctor = "Bool" -> ZapBool(in.key, in.b)
      [] in.ctor \in IntegerCtors -> Field(in.key, in.ctor \o "Type", int64(in.n), "")
      [] in.ctor = "String" -> ZapString(in.key, in.s)
      [] in.ctor \in {"Array", "NestedArray"} -> ZapArray(in.key, in.m)
      [] in.ctor = "Object" -> Field(in.key, "ObjectMarshalerType", 0, "")
      [] in.ctor = "Skip" -> ZapSkip
      [] in.ctor = "Namespace" -> ZapNamespace(in.key)
      [] in.ctor = "Unknown" -> Field(in.key, "UnknownType", 0, "")
      [] in.ctor = "Stringer" -> ZapInterface(in.key, "StringerType", in.m)
      [] in.ctor = "Error" -> ZapInterface(in.key, "ErrorType", in.m)
      [] in.ctor = "Float64" -> ZapFloat64(in.key, in.n)
      [] in.ctor = "Float32" -> ZapFloat32(in.key, in.n)
      [] in.ctor = "Duration" -> Field(in.key, "DurationType", int64(in.n), "")
      [] in.ctor = "Time" -> Field(in.key, "TimeType", UnixNano(in.n), "")
      [] in.ctor \in {"Complex64", "Complex128", "Binary", "ByteString", "TimeFull",
                      "Reflect"} ->
            ZapInterface(in.key, in.ctor \o "Type", in.m)

FieldInit ==
    /\ evalIn \in FieldInputs
    /\ evalOut = [done |-> FALSE, value |-> <<>>, panic |-> FALSE]
    /\ loggers = <<>>
    /\ LogInit
    /\ GlobalInit
    /\ NoClones
    /\ NoGateway
    /\ NoSugared
    /\ NoCommand

\* attrs = appendField(attrs, f) on an empty attrs
AppendField ==
    /\ ~evalOut.done
    /\ LET f == ZapField(evalIn)
       IN  evalOut' = IF appendFieldPanics(f)
                      THEN [done |-> TRUE, value |-> <<>>, panic |-> TRUE]
                      ELSE [done |-> TRUE, value |-> appendField(<<>>, f),
                            panic |-> FALSE]
    /\ UNCHANGED <<sugarVars, gatewayVars, cmdVars, evalIn, cloneVars, loggers, logVars, globalVars>>

FieldNext == AppendField

FieldSpec == FieldInit /\ [][FieldNext]_vars

(* C15: for every field with a primitive tag (bool, any signed or unsigned *)
(* integer width up to 64 bits, string), appendField produces one          *)
(* attribute that has the field's key and the original value exactly.      *)
C15_PrimitiveRoundTrip ==
    (evalOut.done /\ evalIn.ctor \in {"Bool", "String"} \cup IntegerCtors) =>
        /\ Len(evalOut.value) = 1
        /\ evalOut.value[1].Key = evalIn.key
        /\ evalIn.ctor = "Bool" =>
              evalOut.value[1].Type = "BOOL" /\ evalOut.value[1].Bool = evalIn.b
        /\ evalIn.ctor = "String" =>
              evalOut.value[1].Type = "STRING" /\ evalOut.value[1].Str = evalIn.s
        /\ evalIn.ctor \in IntegerCtors =>
              /\ evalOut.value[1].Type = "INT64"
              /\ ~evalIn.n.top
              /\ evalOut.value[1].Int = evalIn.n.off

\* the input is an array field whose marshaler returns nil / an error
ArrayInput(failing) ==
    /\ evalOut.done
    /\ evalIn.ctor = "Array"
    /\ ~evalIn.m.nil
    /\ ~evalIn.m.panics
    /\ (evalIn.m.err # "") = failing

\* the default (%v) rendering of the elements of the model, stated apart
\* from the encoder
DefaultRendering(v) ==
    IF v = BoolV(TRUE) THEN "true"
    ELSE IF v = BoolV(FALSE) THEN "false"
    ELSE IF v = IntV(-7) THEN "-7"
    ELSE v.s

(* C16: for an array field whose marshaler appends n primitive elements    *)
(* without failing, appendField produces one string-array attribute at the *)
(* field's key, of length n, whose i-th entry is the default textual       *)
(* rendering of the i-th appended element.                                 *)
C16_ArrayEncoding ==
    ArrayInput(FALSE) =>
        /\ Len(evalOut.value) = 1
        /\ evalOut.value[1].Key = evalIn.key
        /\ evalOut.value[1].Type = "STRINGSLICE"
        /\ Len(evalOut.value[1].Slice) = Len(evalIn.m.elems)
        /\ \A i \in DOMAIN evalIn.m.elems :
              evalOut.value[1].Slice[i] = DefaultRendering(evalIn.m.elems[i])

C16_Witness ==
    /\ ArrayInput(FALSE)
    /\ evalIn.m.elems = <<IntV(-7), BoolV(TRUE)>>
    /\ evalOut.value = <<AttrStringSlice(evalIn.key, <<"-7", "true">>)>>

\* the array fields of the latest call whose marshaler fails
FailedArrays ==
    {i \in DOMAIN call.fields :
        /\ call.fields[i].Type = "ArrayMarshalerType"
        /\ call.fields[i].Interface.err # ""}

\* the attributes of the event of the latest call that have key k
AttrsAt(k) == {j \in DOMAIN NewEvents[1].Attrs : NewEvents[1].Attrs[j].Key = k}

(* C17: when marshaling an array field fails, the call still reaches the   *)
(* sink, and if it passes the level and recording checks it adds its span  *)
(* event, in which the field has exactly one string attribute keyed        *)
(* <key>_error that carries the failure description, and no attribute at   *)
(* <key>.                                                                  *)
C17_ArrayFailure ==
    (Called /\ StrictCall) =>
        \A i \in FailedArrays :
            LET f == call.fields[i]
            IN  /\ sink.msg = call.msg
                /\ \E o \in DOMAIN ops : ops[o] = "Sink"
                /\ (call.lvl >= Receiver.minLevel /\ IsRecording(before)) =>
                      /\ Recorded
                      /\ AttrsAt(f.Key) = {}
                      /\ Cardinality(AttrsAt(f.Key \o "_error")) = 1
                      /\ \A j \in AttrsAt(f.Key \o "_error") :
                            NewEvents[1].Attrs[j] =
                                AttrString(f.Key \o "_error",
                                    "otelzap: unable to marshal array: "
                                        \o f.Interface.err)

C17_Witness ==
    /\ Called
    /\ StrictCall
    /\ FailedArrays # {}
    /\ Recorded
    /\ \E j \in DOMAIN NewEvents[1].Attrs :
          NewEvents[1].Attrs[j] =
              AttrString("ids_error", "otelzap: unable to marshal array: bad element")

(* C18: appendField never fails on a tag it cannot convert: an object      *)
(* marshaler field yields exactly one string attribute keyed <key>_error   *)
(* saying that the type is not implemented, an unrecognized tag yields     *)
(* exactly one string attribute keyed <key>_error describing the field,    *)
(* and a skip field yields no attribute.                                   *)
C18_UnconvertedTags ==
    evalOut.done =>
        /\ evalIn.ctor = "Object" =>
              evalOut.value =
                  <<AttrString(evalIn.key \o "_error",
                        "otelzap: zapcore.ObjectMarshalerType is not implemented")>>
        /\ evalIn.ctor = "Unknown" =>
              evalOut.value =
                  <<AttrString(evalIn.key \o "_error",
                        "otelzap: unknown field type: {" \o evalIn.key
                            \o " 0 0  <nil>}")>>
        /\ evalIn.ctor = "Namespace" =>
              evalOut.value =
                  <<AttrString(evalIn.key \o "_error",
                        "otelzap: unknown field type: {" \o evalIn.key
                            \o " 24 0  <nil>}")>>
        /\ evalIn.ctor = "Skip" => evalOut.value = <<>>

C18_Witness ==
    /\ evalOut.done
    /\ evalIn.ctor = "Unknown"
    /\ evalIn.key = "user.id"
    /\ Len(evalOut.value) = 1
    /\ evalOut.value[1].Key = "user.id_error"

\* the latest call is a templated call that passes the level and recording
\* checks
TemplatedRecorded ==
    /\ Called
    /\ call.conv = "templated"
    /\ IsRecording(before)
    /\ call.lvl >= Receiver.minLevel

\* the attributes of the event of the latest call whose string value is s
AttrsSaying(s) ==
    {j \in DOMAIN NewEvents[1].Attrs :
        NewEvents[1].Attrs[j].Type = "STRING" /\ NewEvents[1].Attrs[j].Str = s}

(* C19 as stated: for a templated call on a recording span at or above     *)
(* minLevel, the span event carries an attribute recording the             *)
(* uninterpolated template, and the interpolated result of the template    *)
(* and its arguments is not attached to the span.                          *)
C19_Original ==
    TemplatedRecorded =>
        /\ Recorded
        /\ HasAttr(NewEvents[1],
                   AttrString("log.template", TemplateString(call.template)))
        /\ Sprintf(call.template, call.args) # TemplateString(call.template) =>
              /\ AttrsSaying(Sprintf(call.template, call.args)) = {}
              /\ span.status.Description # Sprintf(call.template, call.args)

(* C19: for a templated call on a recording span at or above minLevel, the *)
(* span event carries exactly one log.template attribute, recording the    *)
(* uninterpolated template, and exactly one log.message attribute,         *)
(* recording the interpolated result of the template and its arguments.    *)
C19_TemplateAndMessage ==
    TemplatedRecorded =>
        /\ Recorded
        /\ AttrsAt("log.template") \subseteq AttrsSaying(TemplateString(call.template))
        /\ Cardinality(AttrsAt("log.template")) = 1
        /\ AttrsAt("log.message") \subseteq AttrsSaying(Sprintf(call.template, call.args))
        /\ Cardinality(AttrsAt("log.message")) = 1

C19_Witness ==
    /\ TemplatedRecorded
    /\ Recorded
    /\ HasAttr(NewEvents[1], AttrString("log.template", "user %d created"))
    /\ HasAttr(NewEvents[1], AttrString("log.message", "user 42 created"))

\* positions in ops of the operation named op
OpsNamed(op) == {i \in DOMAIN ops : ops[i] = op}

(* C20: every leveled call performs at most one AddEvent on the span,      *)
(* always named "log", and at most one SetStatus, with the event added     *)
(* before the status is set; it performs no other operation on the span,   *)
(* which stays the same span, as it was except for the event and status.   *)
C20_SpanFrame ==
    Called =>
        /\ Cardinality(OpsNamed("AddEvent")) <= 1
        /\ Cardinality(OpsNamed("SetStatus")) <= 1
        /\ Len(span.events) = Len(before.events) + Cardinality(OpsNamed("AddEvent"))
        /\ SubSeq(span.events, 1, Len(before.events)) = before.events
        /\ \A e \in DOMAIN NewEvents : NewEvents[e].Name = "log"
        /\ \A j \in OpsNamed("SetStatus") : \E i \in OpsNamed("AddEvent") : i < j
        /\ OpsNamed("SetStatus") = {} => span.status = before.status
        /\ \A i \in DOMAIN ops : ops[i] \in {"AddEvent", "SetStatus", "Sink", "panic", "exit"}
        /\ span.recording = before.recording
        /\ span.traceID = before.traceID
        /\ span.spanID = before.spanID

C20_Witness ==
    /\ Called
    /\ Len(ops) >= 3
    /\ ops[1] = "AddEvent"
    /\ ops[2] = "SetStatus"
    /\ NewEvents[1].Name = "log"
    /\ span.status.Code = "Error"

(* C21: no malformed log invocation crashes the caller: for every field    *)
(* tag and payload, including an error or stringer field whose payload is  *)
(* nil or whose rendering fails, the conversion completes, and its         *)
(* attributes are keyed by the field's key, by <key>_error, or are the     *)
(* exception attributes of an error.                                       *)
C21_ConversionCompletes ==
    evalOut.done =>
        /\ ~evalOut.panic
        /\ \A i \in DOMAIN evalOut.value :
              evalOut.value[i].Key \in {evalIn.key, evalIn.key \o "_error", "_error",
                                        "exception.type", "exception.message"}

----------------------------------------------------------------------------
(* The gateway's user handlers (src/services/gateway/handlers/             *)
(* user_handler.go) and the user server they call over Connect             *)
(* (src/proto/userserver/userserver.proto, generated client and handler).  *)

Requests == 1..NumRequests

UserIds == {"0192f3a1", "0192f3a2"}

Usernames == {"bob", "eve"}

\* *connect.Response[T]: nil, or a response carrying a user
NilResponse == [nil |-> TRUE, user |-> ""]
Response(user) == [nil |-> FALSE, user |-> user]

\* a (response, error) pair as Go functions return it; err is "" for nil
Returned(resp, err) == [resp |-> resp, err |-> err]

\* what the user repository's GetUserByID returns: (models.User, found, error)
RepoResult(user, found, err) == [user |-> user, found |-> found, err |-> err]

\* the repository's answers to a lookup of id: the user's row, no row
\* (models.User{}, false, nil), or a database error
RepoResults(id) ==
    {RepoResult(id, TRUE, ""), RepoResult("", FALSE, ""),
     RepoResult("", FALSE, "db: connection refused")}

\* the user server's GetUser with a missing user reported as an error
GetUserMissingIsError(r) ==
    IF r.err # "" THEN Returned(NilResponse, r.err)
    ELSE IF ~r.found THEN Returned(NilResponse, "not_found: user not found")
    ELSE Returned(Response(r.user), "")

\* actions.GetUser of the user server, on the repository's answer r
GetUser(r) ==
    IF r.err # "" THEN Returned(NilResponse, r.err)
    ELSE IF ~r.found THEN Returned(NilResponse, "")
    ELSE Returned(Response(r.user), "")

\* connect.NewUnaryHandler around the service's method: a nil response with a
\* nil error makes the handler panic before anything is sent
NewUnaryHandler(res) ==
    [res |-> res, panic |-> res.resp.nil /\ res.err = ""]

\* Client.CallUnary as the gateway sees it: the server's response or error,
\* and an error when the server dropped the call
CallUnary(served) ==
    IF served.panic THEN Returned(NilResponse, "unavailable: unexpected EOF")
    ELSE IF served.res.err # "" THEN Returned(NilResponse, served.res.err)
    ELSE served.res

\* an HTTP request: the handler its route selects, whether its id variable or
\* body can be read, and what they hold
HttpRequest(handler, ok, id, username, fullName) ==
    [pc |-> "start", handler |-> handler, ok |-> ok, id |-> id,
     Username |-> username, FullName |-> fullName]

HttpRequests ==
    {HttpRequest("GetUserByID", TRUE, id, "", "") : id \in UserIds}
    \cup {HttpRequest("GetUserByID", FALSE, "", "", "")}
    \cup {HttpRequest("CreateNewGuestUser", TRUE, "", u, "Full " \o u) : u \in Usernames}
    \cup {HttpRequest("CreateNewGuestUser", FALSE, "", "", "")}

NoHttpRequest == [pc |-> "none", handler |-> "", ok |-> FALSE, id |-> "",
                  Username |-> "", FullName |-> ""]

NoServer == [called |-> FALSE, repo |-> RepoResult("", FALSE, ""),
             res |-> Returned(NilResponse, ""), panic |-> FALSE]

\* grpc.GetUserRequest / grpc.CreateUserRequest as sent to the user server
GetUserRequest(id) ==
    [Method |-> "GetUser", UserId |-> id, Username |-> "", FullName |-> "",
     AuthProvider |-> ""]
CreateUserRequest(username, fullName, provider) ==
    [Method |-> "CreateNewUser", UserId |-> "", Username |-> username,
     FullName |-> fullName, AuthProvider |-> provider]

\* responses.BadRequestException / NotFoundException / Ok
BadRequestException(err) == [kind |-> "BadRequestException", err |-> err, body |-> NilResponse]
NotFoundException(err) == [kind |-> "NotFoundException", err |-> err, body |-> NilResponse]
Ok(data) == [kind |-> "Ok", err |-> "", body |-> data]

GatewayInit ==
    /\ http = [r \in Requests |-> NoHttpRequest]
    /\ rpc = [r \in Requests |-> <<>>]
    /\ server = [r \in Requests |-> NoServer]
    /\ reply = [r \in Requests |-> Returned(NilResponse, "")]
    /\ written = [r \in Requests |-> <<>>]
    /\ loggers = <<>>
    /\ LogInit
    /\ GlobalInit
    /\ NoClones
    /\ NoEval
    /\ NoSugared
    /\ NoCommand

\* the router hands request r to its handler
Receive(r) ==
    /\ http[r].pc = "none"
    /\ \E q \in HttpRequests : http' = [http EXCEPT ![r] = q]
    /\ UNCHANGED <<rpc, server, reply, written>>

\* GetUserByID calling the user server even when the id cannot be read
GetUserByIDCallAnyway(r) ==
    /\ http[r].pc = "start"
    /\ http[r].handler = "GetUserByID"
    /\ IF ~http[r].ok
       THEN written' = [written EXCEPT ![r] = Append(@, BadRequestException("no id"))]
       ELSE UNCHANGED written
    /\ rpc' = [rpc EXCEPT ![r] = Append(@, GetUserRequest(http[r].id))]
    /\ http' = [http EXCEPT ![r].pc = "call"]
    /\ UNCHANGED <<server, reply>>

\* GetUserByID up to its call of the user server
GetUserByID(r) ==
    /\ http[r].pc = "start"
    /\ http[r].handler = "GetUserByID"
    /\ IF ~http[r].ok
       THEN /\ written' = [written EXCEPT ![r] = Append(@, BadRequestException("no id"))]
            /\ http' = [http EXCEPT ![r].pc = "done"]
            /\ UNCHANGED rpc
       ELSE /\ rpc' = [rpc EXCEPT ![r] = Append(@, GetUserRequest(http[r].id))]
            /\ http' = [http EXCEPT ![r].pc = "call"]
            /\ UNCHANGED written
    /\ UNCHANGED <<server, reply>>

\* GetUserByID from the return of the call
GetUserByIDReturn(r) ==
    /\ http[r].pc = "reply"
    /\ http[r].handler = "GetUserByID"
    /\ written' = [written EXCEPT ![r] =
                      Append(@, IF reply[r].err # ""
                                THEN NotFoundException(reply[r].err)
                                ELSE Ok(reply[r].resp))]
    /\ http' = [http EXCEPT ![r].pc = "done"]
    /\ UNCHANGED <<rpc, server, reply>>

\* CreateNewGuestUser up to its call of the user server
CreateNewGuestUser(r) ==
    /\ http[r].pc = "start"
    /\ http[r].handler = "CreateNewGuestUser"
    /\ IF ~http[r].ok
       THEN /\ written' = [written EXCEPT ![r] = Append(@, BadRequestException("invalid body"))]
            /\ http' = [http EXCEPT ![r].pc = "done"]
            /\ UNCHANGED rpc
       ELSE /\ rpc' = [rpc EXCEPT ![r] =
                          Append(@, CreateUserRequest(http[r].Username,
                                                      http[r].FullName, "GUEST"))]
            /\ http' = [http EXCEPT ![r].pc = "call"]
            /\ UNCHANGED written
    /\ UNCHANGED <<server, reply>>

\* CreateNewGuestUser from the return of the call
CreateNewGuestUserReturn(r) ==
    /\ http[r].pc = "reply"
    /\ http[r].handler = "CreateNewGuestUser"
    /\ written' = [written EXCEPT ![r] =
                      Append(@, IF reply[r].err # ""
                                THEN BadRequestException(reply[r].err)
                                ELSE Ok(reply[r].resp))]
    /\ http' = [http EXCEPT ![r].pc = "done"]
    /\ UNCHANGED <<rpc, server, reply>>

\* a call the gateway has sent and the user server has not served yet
InFlight(r, method) ==
    /\ http[r].pc \in {"call", "reply", "done"}
    /\ rpc[r] # <<>>
    /\ rpc[r][Len(rpc[r])].Method = method
    /\ ~server[r].called

\* the user server serves the GetUser call of request r: the generated
\* handler runs actions.GetUser on the repository's answer and writes its
\* answer; the gateway has yet to receive it
UserServerGetUser(r) ==
    /\ InFlight(r, "GetUser")
    /\ \E repo \in RepoResults(rpc[r][Len(rpc[r])].UserId) :
          LET served == NewUnaryHandler(GetUser(repo))
          IN  server' = [server EXCEPT ![r] =
                            [called |-> TRUE, repo |-> repo, res |-> served.res,
                             panic |-> served.panic]]
    /\ UNCHANGED <<http, rpc, reply, written>>

\* the user server serves the CreateNewUser call of request r: it answers
\* with the created user or with an error
UserServerCreateNewUser(r) ==
    /\ InFlight(r, "CreateNewUser")
    /\ \E res \in {Returned(Response(rpc[r][Len(rpc[r])].Username), ""),
                   Returned(NilResponse, "already_exists: username taken")} :
          LET served == NewUnaryHandler(res)
          IN  server' = [server EXCEPT ![r] =
                            [called |-> TRUE, repo |-> RepoResult("", FALSE, ""),
                             res |-> served.res, panic |-> served.panic]]
    /\ UNCHANGED <<http, rpc, reply, written>>

\* the client call of request r returns what the user server answered
ClientReturn(r) ==
    /\ http[r].pc = "call"
    /\ server[r].called
    /\ reply' = [reply EXCEPT ![r] =
                    CallUnary([res |-> server[r].res, panic |-> server[r].panic])]
    /\ http' = [http EXCEPT ![r].pc = "reply"]
    /\ UNCHANGED <<rpc, server, written>>

\* the client call of request r fails at the gateway: the user server is not
\* reached, or the connection is lost or the context of the handler is
\* cancelled before the answer is read
Unavailable(r) ==
    /\ http[r].pc = "call"
    /\ reply' = [reply EXCEPT ![r] = Returned(NilResponse, "unavailable: dial tcp")]
    /\ http' = [http EXCEPT ![r].pc = "reply"]
    /\ UNCHANGED <<rpc, server, written>>

GatewayStep(r) ==
    \/ Receive(r)
    \/ GetUserByID(r)
    \/ GetUserByIDReturn(r)
    \/ CreateNewGuestUser(r)
    \/ CreateNewGuestUserReturn(r)
    \/ UserServerGetUser(r)
    \/ UserServerCreateNewUser(r)
    \/ ClientReturn(r)
    \/ Unavailable(r)

GatewayNext ==
    \E r \in Requests :
        GatewayStep(r) /\ UNCHANGED <<sugarVars, cmdVars, evalVars, cloneVars, loggers, logVars, globalVars>>

GatewaySpec == GatewayInit /\ [][GatewayNext]_vars

\* the requests whose handler has returned
Done == {r \in Requests : http[r].pc = "done"}

(* C22: when the user repository reports found=false with no error, the    *)
(* user server's GetUser returns a nil response and no error.              *)
C22_MissingUserNilNil ==
    \A r \in Requests :
        (server[r].called /\ rpc[r][Len(rpc[r])].Method = "GetUser"
            /\ ~server[r].repo.found /\ server[r].repo.err = "") =>
                server[r].res.resp.nil /\ server[r].res.err = ""

C22_Witness ==
    \E r \in Requests :
        /\ server[r].called
        /\ rpc[r][Len(rpc[r])].Method = "GetUser"
        /\ server[r].repo = RepoResult("", FALSE, "")
        /\ server[r].res = Returned(NilResponse, "")

----------------------------------------------------------------------------
(* SugaredLogger.With and the three families of methods of a sugared       *)
(* logger: the embedded zap methods, the ...Context methods and the        *)
(* methods of Ctx(ctx).                                                    *)

\* zap's sweetenFields: the fields of a loosely typed list; a pair whose key
\* is not a string and a trailing key without a value are left out
RECURSIVE sweetenFields(_, _, _)
sweetenFields(args, i, fields) ==
    IF ~(i < Len(args)) THEN fields
    ELSE IF args[i].kind = "string"
         THEN sweetenFields(args, i + 2,
                 Append(fields,
                        IF args[i + 1].kind = "string"
                        THEN ZapString(args[i].s, args[i + 1].s)
                        ELSE ZapInt(args[i].s, args[i + 1].i)))
         ELSE sweetenFields(args, i + 2, fields)

\* a *SugaredLogger: the context fields of the embedded *zap.SugaredLogger
\* and of skipCaller, its *Logger, and the fields With was asked to add
SugaredLogger(embedded, skipCaller, l, added) ==
    [SugaredLogger |-> embedded, skipCaller |-> skipCaller, l |-> l, added |-> added]

\* Logger.Sugar on a logger whose zap logger has no context fields
SugarOf(id) == SugaredLogger(<<>>, <<>>, id, <<>>)

\* SugaredLogger.With
With(s, args) ==
    SugaredLogger(s.SugaredLogger \o sweetenFields(args, 1, <<>>),
                  s.skipCaller,
                  s.l,
                  s.added \o sweetenFields(args, 1, <<>>))

WithArgs ==
    {<<StrV("request_id"), StrV("r-17")>>,
     <<StrV("attempt"), IntV(2), StrV("oops")>>}

SugaredCall(conv, sid, lvl, msg, kvs) ==
    [conv |-> conv, l |-> sugared[sid].l, lvl |-> lvl, msg |-> msg, fields |-> <<>>,
     template |-> <<>>, args |-> <<>>, kvs |-> kvs, s |-> sid]

\* what a zap sugared logger with the given context fields writes
ZapSink(context, lvl, msg, kvs) ==
    [lvl |-> lvl, msg |-> msg, fields |-> <<>>, args |-> <<>>, kvs |-> kvs,
     context |-> context]

\* s.Debugw ... s.Fatalw: the methods of the embedded *zap.SugaredLogger
EmbeddedLogw(sid, ctx, lvl, msg, kvs) ==
    /\ before' = ctx
    /\ call' = SugaredCall("embedded", sid, lvl, msg, kvs)
    /\ span' = ctx
    /\ sink' = ZapSink(sugared[sid].SugaredLogger, lvl, msg, kvs)
    /\ ops' = SinkOps(lvl)

\* SugaredLogger.DebugwContext ... FatalwContext
LogwContext(sid, ctx, lvl, msg, kvs) ==
    LET r == logKVs(loggers[sugared[sid].l], ctx, lvl, msg, kvs)
    IN  /\ before' = ctx
        /\ call' = SugaredCall("context", sid, lvl, msg, kvs)
        /\ span' = r.span
        /\ sink' = ZapSink(sugared[sid].SugaredLogger, lvl, msg, r.kvs)
        /\ ops' = r.ops \o SinkOps(lvl)

\* SugaredLoggerWithCtx.Debugw ... Fatalw of s.Ctx(ctx)
CtxLogw(sid, ctx, lvl, msg, kvs) ==
    LET r == logKVs(loggers[sugared[sid].l], ctx, lvl, msg, kvs)
    IN  /\ before' = ctx
        /\ call' = SugaredCall("ctx", sid, lvl, msg, kvs)
        /\ span' = r.span
        /\ sink' = ZapSink(sugared[sid].skipCaller, lvl, msg, r.kvs)
        /\ ops' = r.ops \o SinkOps(lvl)

WithInit ==
    /\ \E opts \in SeqsUpTo({WithMinLevel(DebugLevel), WithTraceIDField(TRUE)}, 1) :
          loggers = [id \in 0..AppLogger |->
                        IF id = 0 THEN NewOtel(<<>>) ELSE NewOtel(opts)]
    /\ sugared = <<SugarOf(AppLogger)>>
    /\ LogInit
    /\ GlobalInit
    /\ NoClones
    /\ NoEval
    /\ NoGateway
    /\ NoCommand

\* the application derives a sugared logger with more context
WithFields ==
    /\ call = NoCall
    /\ Len(sugared) < MaxSugared
    /\ \E sid \in DOMAIN sugared, args \in WithArgs :
          sugared' = Append(sugared, With(sugared[sid], args))
    /\ UNCHANGED <<logVars, gatewayVars, cmdVars, evalVars, cloneVars, loggers, globalVars>>

Embedded ==
    /\ call = NoCall
    /\ \E sid \in DOMAIN sugared, ctx \in Contexts, lvl \in Levels, kvs \in KVLists :
          EmbeddedLogw(sid, ctx, lvl, "user created", kvs)
    /\ UNCHANGED <<sugarVars, gatewayVars, cmdVars, evalVars, cloneVars, loggers, globalVars>>

WithContext ==
    /\ call = NoCall
    /\ \E sid \in DOMAIN sugared, ctx \in Contexts, lvl \in Levels, kvs \in KVLists :
          LogwContext(sid, ctx, lvl, "user created", kvs)
    /\ UNCHANGED <<sugarVars, gatewayVars, cmdVars, evalVars, cloneVars, loggers, globalVars>>

WithCtx ==
    /\ call = NoCall
    /\ \E sid \in DOMAIN sugared, ctx \in Contexts, lvl \in Levels, kvs \in KVLists :
          CtxLogw(sid, ctx, lvl, "user created", kvs)
    /\ UNCHANGED <<sugarVars, gatewayVars, cmdVars, evalVars, cloneVars, loggers, globalVars>>

WithNext == WithFields \/ Embedded \/ WithContext \/ WithCtx \/ EndRequest

WithSpec == WithInit /\ [][WithNext]_vars

(* C23: fields added with SugaredLogger.With belong to the logging context *)
(* of the returned logger: every record it emits, through the embedded     *)
(* methods, the ...Context methods and the Ctx(ctx)-bound methods alike,   *)
(* reaches the sink with those fields.                                     *)
C23_WithFieldsReachSink ==
    (call # NoCall) => sink.context = sugared[call.s].added

\* the nested element of a field built from NestedElems, and its place
NestedAt == CHOOSE i \in DOMAIN evalIn.m.elems : Nested(evalIn.m.elems[i])
NestedElem == evalIn.m.elems[NestedAt]

\* a nested array or object whose own marshaling failed was appended
NestedFailure ==
    evalOut.done /\ evalIn.ctor = "NestedArray" /\ NestedElem.m.err # ""

\* the text a nested value leaves in the parent's elements: what it encoded
\* before returning, between brackets
RECURSIVE Spaced(_)
Spaced(es) ==
    IF es = <<>> THEN ""
    ELSE DefaultRendering(Head(es))
            \o (IF Len(es) > 1 THEN " " ELSE "") \o Spaced(Tail(es))

NestedRendering(e) ==
    IF e.kind = "array" THEN "[" \o Spaced(e.m.elems) \o "]"
    ELSE IF e.m.pairs = <<>> THEN "map[]"
    ELSE IF Len(e.m.pairs) = 1
    THEN "map[" \o e.m.pairs[1].k \o ":" \o DefaultRendering(e.m.pairs[1].v) \o "]"
    ELSE IF e.m.pairs[1].k = e.m.pairs[2].k
    THEN "map[a:-7]"
    ELSE "map[a:-7 b:z]"

(* C24 as stated: when an array field's marshaler appends a nested array   *)
(* or object whose own marshaling fails, the partial rendering is appended *)
(* and the parent field still yields its string-array attribute, not an    *)
(* _error attribute.                                                       *)
C24_Original ==
    NestedFailure =>
        /\ Len(evalOut.value) = 1
        /\ evalOut.value[1].Key = evalIn.key
        /\ evalOut.value[1].Type = "STRINGSLICE"
        /\ evalOut.value[1].Slice[NestedAt] = NestedRendering(NestedElem)

(* C24: the element encoder appends the partial rendering of the failed    *)
(* nested value and returns the failure to the marshaler of the parent;    *)
(* the parent field yields its string-array attribute, holding that        *)
(* rendering, exactly when the marshaler does not return the failure, and  *)
(* the single <key>_error attribute naming the failure when it does.       *)
C24_NestedFailureReturned ==
    NestedFailure =>
        /\ Len(evalOut.value) = 1
        /\ NestedElem.checked =>
              evalOut.value[1] =
                  AttrString(evalIn.key \o "_error",
                             "otelzap: unable to marshal array: " \o NestedElem.m.err)
        /\ ~NestedElem.checked =>
              /\ evalOut.value[1].Key = evalIn.key
              /\ evalOut.value[1].Type = "STRINGSLICE"
              /\ Len(evalOut.value[1].Slice) = Len(evalIn.m.elems)
              /\ evalOut.value[1].Slice[NestedAt] = NestedRendering(NestedElem)

C24_Witness ==
    /\ NestedFailure
    /\ NestedElem.kind = "array"
    /\ NestedElem.checked
    /\ NestedElem.m.elems = <<IntV(-7), StrV("a b")>>
    /\ evalOut.value[1].Key = evalIn.key \o "_error"

\* the kinds of the responses written for request r, in order
Kinds(r) == [i \in DOMAIN written[r] |-> written[r][i].kind]

(* C25: each gateway user handler writes exactly one response per request. *)
(* GetUserByID answers BadRequest without calling the user server when the *)
(* id cannot be read, NotFound when the GetUser call returns an error and  *)
(* Ok otherwise; CreateNewGuestUser answers BadRequest without calling the *)
(* user server when body validation fails, BadRequest when the             *)
(* CreateNewUser call returns an error and Ok otherwise, and it always     *)
(* sends auth provider GUEST.                                              *)
C25_OneResponsePerRequest ==
    \A r \in Requests :
        /\ r \notin Done => written[r] = <<>>
        /\ Len(rpc[r]) <= 1
        /\ \A i \in DOMAIN rpc[r] :
              IF http[r].handler = "GetUserByID"
              THEN rpc[r][i] = GetUserRequest(http[r].id)
              ELSE rpc[r][i] = CreateUserRequest(http[r].Username, http[r].FullName,
                                                 "GUEST")
        /\ r \in Done =>
              /\ Len(written[r]) = 1
              /\ ~http[r].ok => Kinds(r) = <<"BadRequestException">> /\ rpc[r] = <<>>
              /\ http[r].ok =>
                    /\ Len(rpc[r]) = 1
                    /\ reply[r].err = "" => written[r] = <<Ok(reply[r].resp)>>
                    /\ reply[r].err # "" =>
                          written[r] =
                              <<IF http[r].handler = "GetUserByID"
                                THEN NotFoundException(reply[r].err)
                                ELSE BadRequestException(reply[r].err)>>

C25_Witness ==
    \E r, q \in Requests :
        /\ {r, q} \subseteq Done
        /\ http[r].handler = "GetUserByID"
        /\ Kinds(r) = <<"NotFoundException">>
        /\ http[q].handler = "CreateNewGuestUser"
        /\ Kinds(q) = <<"Ok">>
        /\ rpc[q][1].AuthProvider = "GUEST"

\* the GetUserByID requests whose lookup found no user: the repository
\* answered (User{}, false, nil), and the client call returned what the
\* user server made of it
MissingUser ==
    {r \in Requests : /\ http[r].handler = "GetUserByID"
                      /\ server[r].called
                      /\ server[r].repo = RepoResult("", FALSE, "")
                      /\ reply[r] = CallUnary([res |-> server[r].res,
                                               panic |-> server[r].panic])}

(* C30: the gateway's GetUserByID answers NotFound only when the GetUser   *)
(* call returns an error; the user server reports a missing user as a nil  *)
(* response with no error, so a lookup of a non-existent user id is        *)
(* answered with Ok rather than NotFound.                                  *)
C30_MissingUserAnsweredOk ==
    \A r \in Done :
        http[r].handler = "GetUserByID" =>
            /\ Kinds(r) = <<"NotFoundException">> => reply[r].err # ""
            /\ r \in MissingUser => Kinds(r) = <<"Ok">>

----------------------------------------------------------------------------
(* The unified launcher (package cmdutil, service.go:250-365): the root    *)
(* command, its dispatch to the subcommand of the configured service, and  *)
(* cobra's execution of a command line.                                    *)

rootCmdName == "app"

\* the subcommands InitializeService adds: the Command() of each service
Commands == <<"lobbyserver", "userserver">>

CommandNames == {Commands[i] : i \in DOMAIN Commands}

\* a command line argument: a word, or --flag=value
Positional(word) == [flag |-> "", value |-> word]
Flag(name, value) == [flag |-> name, value |-> value]

CommandLineArgs ==
    {Positional("userserver"), Positional("lobbyserver"), Positional("bogus"),
     Flag("service", "userserver"), Flag("service", "gateway"), Flag("service", ""),
     Flag("log-level", "debug")}

\* what the environment holds in PLANNING_POCKER_SERVICE
ServiceEnvs == {"", "lobbyserver", "gateway"}

\* the config file viper finds: none, a readable one, or one it cannot read
ConfigFiles == {"notfound", "ok", "broken"}

\* the flag name after the command line was parsed: whether it was given,
\* and the value of the last --name=value among args
RECURSIVE FlagValue(_, _)
FlagValue(args, name) ==
    IF args = <<>> THEN [Changed |-> FALSE, Value |-> ""]
    ELSE IF args[Len(args)].flag = name
         THEN [Changed |-> TRUE, Value |-> args[Len(args)].value]
         ELSE FlagValue(SubSeq(args, 1, Len(args) - 1), name)

\* viper.GetString("service"): a value set explicitly, else the bound flag
\* if the command line gave it, even as the empty string, else the bound
\* environment variable, else the default ""
viperGetString(v, args) ==
    IF v.override # "" THEN v.override
    ELSE IF FlagValue(args, "service").Changed THEN FlagValue(args, "service").Value
    ELSE v.env

\* the words of a command line, flags left out
Words(args) == SelectSeq(args, LAMBDA a : a.flag = "")

\* cobra's Find on the arguments after the program name: the subcommand the
\* first word names, the root when there is no word, an error otherwise
Find(args) ==
    IF Words(args) = <<>> THEN [cmd |-> rootCmdName, err |-> ""]
    ELSE IF Words(args)[1].value \in CommandNames
         THEN [cmd |-> Words(args)[1].value, err |-> ""]
         ELSE [cmd |-> rootCmdName, err |-> "unknown command"]

\* a call of a cobra function on a command, with os.Args as it started
Call(fn, cmd, args) == [fn |-> fn, cmd |-> cmd, args |-> args]

Running == cmds[Len(cmds)]

\* how the process ends: Execute returns err, a panic leaves it, or a Fatal
\* of the logger exits with status 1 inside the subcommand
Exit(err, panic) == [done |-> TRUE, err |-> err, panic |-> panic, fatal |-> FALSE]
Fatal(err) == [done |-> TRUE, err |-> err, panic |-> FALSE, fatal |-> TRUE]

\* what stops the Run of a service before it serves: nothing, the error of
\* cmdutil.BoilerplateRun, or the error of setupDependencies
RunErrors == {"", "BoilerplateRun: config", "setupDependencies: db unreachable"}

CmdInit ==
    /\ osArgs \in {<<Positional("app")>> \o a : a \in SeqsUpTo(CommandLineArgs, MaxArgs)}
    /\ viper \in {[override |-> "", env |-> e, config |-> c] :
                     e \in ServiceEnvs, c \in ConfigFiles}
    /\ shortCircuit = FALSE
    /\ cmds = <<Call("Execute", rootCmdName, osArgs)>>
    /\ runs = <<>>
    /\ exit = [done |-> FALSE, err |-> "", panic |-> FALSE, fatal |-> FALSE]
    /\ loggers = <<>>
    /\ LogInit
    /\ GlobalInit
    /\ NoClones
    /\ NoEval
    /\ NoSugared
    /\ NoGateway

\* Command.Execute of the root or of a subcommand: both execute the root on
\* os.Args[1:]
Execute ==
    /\ ~exit.done
    /\ Running.fn = "Execute"
    /\ LET target == Find(Tail(osArgs))
       IN  IF target.err # ""
           THEN /\ exit' = Exit(target.err, FALSE)
                /\ UNCHANGED cmds
           ELSE /\ cmds' = Append(cmds, Call("PersistentPreRun", target.cmd, osArgs))
                /\ UNCHANGED exit
    /\ UNCHANGED <<osArgs, viper, shortCircuit, runs>>

\* ServiceRootCmd.PersistentPreRun, run for the command cobra found
PersistentPreRun ==
    /\ ~exit.done
    /\ Running.fn = "PersistentPreRun"
    /\ LET calledAs == Running.cmd
           next == IF calledAs = rootCmdName
                   THEN Call("RunE", rootCmdName, osArgs)
                   ELSE Call("Run", calledAs, osArgs)
       IN  IF calledAs # rootCmdName
           THEN /\ viper' = [viper EXCEPT !.override = calledAs]
                /\ IF viper.config = "broken"
                   THEN /\ exit' = Exit("fatal error config file", TRUE)
                        /\ UNCHANGED <<shortCircuit, cmds>>
                   ELSE /\ shortCircuit' = TRUE
                        /\ cmds' = Append(cmds, next)
                        /\ UNCHANGED exit
           ELSE /\ cmds' = Append(cmds, next)
                /\ UNCHANGED <<viper, shortCircuit, exit>>
    /\ UNCHANGED <<osArgs, runs>>

\* RunE executing the subcommand without putting its name into os.Args
RunENoInject ==
    /\ ~exit.done
    /\ Running.fn = "RunE"
    /\ LET svc == viperGetString(viper, Tail(osArgs))
       IN  IF shortCircuit
           THEN /\ exit' = Exit("", FALSE)
                /\ UNCHANGED <<osArgs, shortCircuit, cmds>>
           ELSE IF svc \in CommandNames
           THEN /\ shortCircuit' = TRUE
                /\ cmds' = Append(cmds, Call("Execute", svc, osArgs))
                /\ UNCHANGED <<exit, osArgs>>
           ELSE /\ exit' = Exit("no valid command or service specified", FALSE)
                /\ UNCHANGED <<osArgs, shortCircuit, cmds>>
    /\ UNCHANGED <<viper, runs>>

\* ServiceRootCmd.RunE
RunE ==
    /\ ~exit.done
    /\ Running.fn = "RunE"
    /\ LET svc == viperGetString(viper, Tail(osArgs))
           injected == <<osArgs[1]>> \o <<Positional(svc)>> \o Tail(osArgs)
       IN  IF shortCircuit
           THEN /\ exit' = Exit("", FALSE)
                /\ UNCHANGED <<osArgs, shortCircuit, cmds>>
           ELSE IF svc \in CommandNames
           THEN /\ shortCircuit' = TRUE
                /\ osArgs' = injected
                /\ cmds' = Append(cmds, Call("Execute", svc, injected))
                /\ UNCHANGED exit
           ELSE /\ exit' = Exit("no valid command or service specified", FALSE)
                /\ UNCHANGED <<osArgs, shortCircuit, cmds>>
    /\ UNCHANGED <<viper, runs>>

\* the Run of the subcommand cobra found: log.GlobalSugared().Fatal(err)
\* when BoilerplateRun or setupDependencies fails; otherwise the service
\* runs until it is shut down
Run ==
    /\ ~exit.done
    /\ Running.fn = "Run"
    /\ runs' = Append(runs, [cmd |-> Running.cmd, args |-> osArgs])
    /\ \E err \in RunErrors : exit' = IF err # "" THEN Fatal(err) ELSE Exit("", FALSE)
    /\ UNCHANGED <<osArgs, viper, shortCircuit, cmds>>

CmdNext ==
    /\ Execute \/ PersistentPreRun \/ RunE \/ Run
    /\ UNCHANGED <<sugarVars, gatewayVars, evalVars, cloneVars, loggers, logVars, globalVars>>

CmdSpec == CmdInit /\ [][CmdNext]_vars

\* the command line the process was started with, and the service it was
\* configured with by flag or environment
StartArgs == cmds[1].args
ConfiguredService == viperGetString([viper EXCEPT !.override = ""], Tail(StartArgs))

\* the calls of fn made so far
CallsOf(fn) == {i \in DOMAIN cmds : cmds[i].fn = fn}

\* the process was started through a subcommand, without any word, or with
\* a first word that names no subcommand
ThroughSubcommand == Find(Tail(StartArgs)).cmd # rootCmdName
WithoutSubcommand == Words(Tail(StartArgs)) = <<>>
UnknownCommand == Find(Tail(StartArgs)).err # ""

\* os.Args after RunE put the configured service in front of the arguments
Injected == <<StartArgs[1], Positional(ConfiguredService)>> \o Tail(StartArgs)

\* viper.ReadInConfig finds no file or one it can read
ConfigReadable == viper.config # "broken"

(* C26 as stated: when the root command is invoked through a subcommand,   *)
(* its RunE does nothing and shortCircuit is set; when it is invoked       *)
(* without one and the configured service is the name of a registered      *)
(* subcommand, that subcommand is executed exactly once with the service   *)
(* name inserted as the first argument and nothing is dispatched again;    *)
(* otherwise RunE returns the error "no valid command or service           *)
(* specified".                                                             *)
C26_Original ==
    /\ Cardinality(CallsOf("RunE")) <= 1
    /\ Cardinality(CallsOf("Execute")) <= 2
    /\ Len(runs) <= 1
    /\ exit.done =>
          /\ ThroughSubcommand =>
                /\ shortCircuit
                /\ CallsOf("RunE") = {}
          /\ (~ThroughSubcommand /\ ConfiguredService \in CommandNames) =>
                /\ Cardinality(CallsOf("RunE")) = 1
                /\ runs = <<[cmd |-> ConfiguredService, args |-> Injected]>>
          /\ (~ThroughSubcommand /\ ConfiguredService \notin CommandNames) =>
                /\ Cardinality(CallsOf("RunE")) = 1
                /\ runs = <<>>
                /\ exit.err = "no valid command or service specified"

(* C26: when the root command is invoked through a subcommand and the      *)
(* config file is readable or absent, its RunE does nothing and            *)
(* shortCircuit is set; when it is invoked with no word at all, the        *)
(* configured service is the name of a registered subcommand and the       *)
(* config file is readable or absent, that subcommand is executed exactly  *)
(* once with the service name inserted as the first argument and nothing   *)
(* is dispatched again; when it is invoked with no word at all and the     *)
(* configured service names no subcommand, RunE returns the error "no      *)
(* valid command or service specified"; when the first word names no       *)
(* subcommand, the command line is rejected as an unknown command and      *)
(* neither RunE nor a subcommand runs; and when a subcommand is reached    *)
(* with an unreadable config file, PersistentPreRun panics and no          *)
(* subcommand runs.                                                        *)
C26_RootDispatch ==
    /\ Cardinality(CallsOf("RunE")) <= 1
    /\ Cardinality(CallsOf("Execute")) <= 2
    /\ Len(runs) <= 1
    /\ exit.done =>
          /\ (ThroughSubcommand /\ ConfigReadable) =>
                /\ ~exit.panic
                /\ shortCircuit
                /\ CallsOf("RunE") = {}
                /\ Cardinality(CallsOf("Execute")) = 1
                /\ runs = <<[cmd |-> Find(Tail(StartArgs)).cmd, args |-> StartArgs]>>
                /\ ~exit.fatal => exit.err = ""
          /\ (WithoutSubcommand /\ ConfiguredService \in CommandNames /\ ConfigReadable) =>
                /\ ~exit.panic
                /\ shortCircuit
                /\ Cardinality(CallsOf("RunE")) = 1
                /\ \E i \in CallsOf("Execute") :
                      /\ i > 1
                      /\ cmds[i].cmd = ConfiguredService
                /\ runs = <<[cmd |-> ConfiguredService, args |-> Injected]>>
                /\ ~exit.fatal => exit.err = ""
          /\ (WithoutSubcommand /\ ConfiguredService \notin CommandNames) =>
                /\ Cardinality(CallsOf("RunE")) = 1
                /\ Cardinality(CallsOf("Execute")) = 1
                /\ runs = <<>>
                /\ ~exit.fatal
                /\ ~exit.panic
                /\ exit.err = "no valid command or service specified"
          /\ UnknownCommand =>
                /\ exit = Exit("unknown command", FALSE)
                /\ ~shortCircuit
                /\ CallsOf("RunE") = {}
                /\ CallsOf("PersistentPreRun") = {}
                /\ runs = <<>>
          /\ (~ConfigReadable /\ ThroughSubcommand) =>
                /\ exit.panic
                /\ ~shortCircuit
                /\ CallsOf("RunE") = {}
                /\ runs = <<>>
          /\ (~ConfigReadable /\ WithoutSubcommand /\ ConfiguredService \in CommandNames) =>
                /\ exit.panic
                /\ Cardinality(CallsOf("RunE")) = 1
                /\ runs = <<>>

C26_Witness ==
    /\ exit.done
    /\ ~exit.panic
    /\ StartArgs = <<Positional("app"), Flag("log-level", "debug")>>
    /\ viper.env = "lobbyserver"
    /\ runs = <<[cmd |-> "lobbyserver",
                 args |-> <<Positional("app"), Positional("lobbyserver"),
                            Flag("log-level", "debug")>>]>>

(* C27: in every reachable state in which no ReplaceGlobals call is inside *)
(* its critical section, the global pair is consistent and non-nil: the    *)
(* sugared logger S() returns desugars to the very instance L() returns,   *)
(* from process start and after any sequence of replacements and restores. *)
C27_PairConsistent ==
    globalMu.writer = 0 =>
        /\ globalL \in DOMAIN loggers
        /\ Desugar(globalS) = globalL
        /\ \A p \in Procs :
              pc[p] \in {"L_runlock", "S_runlock"} => loc[p].l = globalL

C27_Witness ==
    /\ globalMu.writer = 0
    /\ Len(hist) >= 2
    /\ hist[1].origin = 0
    /\ hist[2].origin # 0
    /\ globalL = hist[2].new
    /\ Desugar(globalS) = globalL

\* the span operations of the latest call all come before its record is
\* handed to the sink, which is the last thing the call does but for the
\* panic or exit of the sink itself
SpanBeforeSink ==
    /\ Cardinality(OpsNamed("Sink")) = 1
    /\ \A i \in OpsNamed("AddEvent") \cup OpsNamed("SetStatus") :
          \A j \in OpsNamed("Sink") : i < j
    /\ call.lvl = PanicLevel => ops[Len(ops)] = "panic"
    /\ call.lvl = FatalLevel => ops[Len(ops)] = "exit"

\* a panic- or fatal-class call that passes the level and recording checks
EndingCall ==
    /\ Called
    /\ call.lvl \in {PanicLevel, FatalLevel}
    /\ IsRecording(before)
    /\ call.lvl >= Receiver.minLevel

(* C28 as stated: for every leveled call of every calling convention the   *)
(* span event and any status change are applied before the record is       *)
(* handed to the sink, so a panic- or fatal-class call on a recording span *)
(* at or above minLevel has its event and Error status recorded even       *)
(* though the sink then panics or exits.                                   *)
C28_Original ==
    /\ Called => SpanBeforeSink
    /\ EndingCall =>
          /\ Recorded
          /\ span.status.Code = "Error"

(* C28: the span event and any status change are applied before the record *)
(* is handed to the sink; a panic- or fatal-class call on a recording span *)
(* at or above minLevel has its event recorded although the sink then      *)
(* panics or exits, and the Error status exactly when its level is at or   *)
(* above errorStatusLevel; below it the status stays as it was.            *)
C28_EventBeforeSink ==
    /\ Called => SpanBeforeSink
    /\ EndingCall =>
          /\ Recorded
          /\ call.lvl >= Receiver.errorStatusLevel => span.status.Code = "Error"
          /\ call.lvl < Receiver.errorStatusLevel => span.status = before.status

C28_Witness ==
    /\ EndingCall
    /\ call.conv = "kv"
    /\ call.lvl = PanicLevel
    /\ before.status.Code = "Unset"
    /\ span.status.Code = "Error"
    /\ ops = <<"AddEvent", "SetStatus", "Sink", "panic">>

\* the latest call was a key/value call to whose list logKVs appended
TraceIdsAppended ==
    /\ Called
    /\ call.conv = "kv"
    /\ Len(sink.kvs) > Len(call.kvs)

\* the places of the appended keys in the list the sink is given, counted
\* from 0 as Go counts them
AppendedKeyPlaces ==
    {i - 1 : i \in {j \in DOMAIN sink.kvs :
                       /\ j > Len(call.kvs)
                       /\ sink.kvs[j].kind = "string"
                       /\ sink.kvs[j].s \in TraceKeys}}

\* the keys of the fields the zap sugared logger makes of the list
SinkKeys ==
    LET fs == sweetenFields(sink.kvs, 1, <<>>)
    IN  {fs[i].Key : i \in DOMAIN fs}

(* C29: in the list logKVs returns when trace ids are appended, the        *)
(* caller's list is an unchanged prefix followed by exactly the eight      *)
(* entries traceId, <hex>, trace_id, <decimal>, spanId, <hex>, span_id,    *)
(* <decimal> in that order; the four appended keys fall on key (even)      *)
(* positions exactly when the caller's list has even length, so an         *)
(* orphaned trailing key shifts every appended pair out of alignment for   *)
(* the sink.                                                               *)
C29_AppendedTracePairs ==
    TraceIdsAppended =>
        LET n == Len(call.kvs)
        IN  /\ Len(sink.kvs) = n + 8
            /\ SubSeq(sink.kvs, 1, n) = call.kvs
            /\ SubSeq(sink.kvs, n + 1, n + 8) =
                  <<StrV("traceId"), StrV("4bf92f3577b34da6a3ce929d0e0e4736"),
                    StrV("trace_id"), StrV("11803532876627986230"),
                    StrV("spanId"), StrV("00f067aa0ba902b7"),
                    StrV("span_id"), StrV("67667974448284343")>>
            /\ Cardinality(AppendedKeyPlaces) = 4
            /\ (\A i \in AppendedKeyPlaces : i % 2 = 0) <=> (n % 2 = 0)
            /\ n % 2 = 0 => TraceKeys \subseteq SinkKeys
            /\ n % 2 = 1 =>
                  /\ \A i \in AppendedKeyPlaces : i % 2 = 1
                  /\ TraceKeys \cap SinkKeys = {}

C29_Witness ==
    /\ TraceIdsAppended
    /\ call.kvs = <<StrV("id"), IntV(42), StrV("oops")>>
    /\ AppendedKeyPlaces = {3, 5, 7, 9}
    /\ SinkKeys = {"id", "oops", "4bf92f3577b34da6a3ce929d0e0e4736",
                   "11803532876627986230", "00f067aa0ba902b7"}

====
